---- MODULE Spec2Model ----
(***************************************************************************)
(* CampaignIQ: the campaign simulator (src/src/utils/data_generator.py),   *)
(* its data-quality injector, and the ingestion agent                      *)
(* (src/src/agents/data_ingestion.py).                                     *)
(*                                                                         *)
(* Numbers.  Python floats are modelled by exact rationals [n, d]; int()   *)
(* is the floor of a non-negative rational and round() rounds half to      *)
(* even.  A stored money column (spend, cpm) holds an integer count of     *)
(* 1/10000 dollar, a stored rate column (ctr, engagement_rate) an integer  *)
(* count of 1/1000000, so that rounding to 2 resp. 4 decimals is an        *)
(* operation on the stored value and not a change of notation.             *)
(*                                                                         *)
(* Random streams.  numpy's and Python's global generators are             *)
(* deterministic functions of their state.  Each is modelled as a          *)
(* congruential generator over a small state space whose increment and     *)
(* seed-42 state are fixed, but unknown: they are chosen in Init.          *)
(***************************************************************************)
EXTENDS Integers, Sequences, FiniteSets, TLC

\* ------------------------------------------------------------------ bounds

\* Number of distinct values one draw of the numpy stream can take.
DrawLevels == 3

\* Largest duration_days of the small campaign configurations.
MaxDays == 3

\* Number of distinct readings of the clock (datetime.now()).
ClockReadings == 2

\* ------------------------------------------------------------- arithmetic

RECURSIVE GCD(_, _)
GCD(a, b) == IF b = 0 THEN a ELSE GCD(b, a % b)

Rat(n, d) == LET g == GCD(n, d) IN [n |-> n \div g, d |-> d \div g]

RInt(k) == [n |-> k, d |-> 1]

RMul(a, b) ==
    LET g1 == GCD(a.n, b.d)
        g2 == GCD(b.n, a.d)
    IN  [n |-> (a.n \div g1) * (b.n \div g2), d |-> (a.d \div g2) * (b.d \div g1)]

RDiv(a, b) == RMul(a, [n |-> b.d, d |-> b.n])

RLeq(a, b) == a.n * b.d <= b.n * a.d

\* int(x) of a non-negative float
PyInt(a) == a.n \div a.d

\* round(x): half to even
PyRound(a) ==
    LET q  == a.n \div a.d
        r2 == 2 * (a.n % a.d)
    IN  IF r2 < a.d THEN q
        ELSE IF r2 > a.d THEN q + 1
        ELSE IF q % 2 = 0 THEN q ELSE q + 1

\* round(x, 2) of a dollar amount, as a stored money value
Round2(a) == 100 * PyRound(RMul(a, RInt(100)))

\* round(x, 4) of a rate, as a stored rate value
Round4(a) == 100 * PyRound(RMul(a, RInt(10000)))

\* a stored money / rate value as a number
Money(v) == Rat(v, 10000)
Rate(v) == Rat(v, 1000000)

\* The sum of s[lo..hi], by halves
RECURSIVE SumRange(_, _, _)
SumRange(s, lo, hi) ==
    IF lo > hi THEN 0
    ELSE IF lo = hi THEN s[lo]
    ELSE LET mid == (lo + hi) \div 2
         IN  SumRange(s, lo, mid) + SumRange(s, mid + 1, hi)

SumSeq(s) == SumRange(s, 1, Len(s))

\* The floats that are no numbers, among stored values that are never
\* negative: nan (0 / 0) and inf (x / 0).
NaN == 0 - 1

Inf == 0 - 2

IsNull(v) == v = NaN

\* A function on 1..n as the sequence of its values
AsSeq(f) == f \o <<>>

SelectIdx(s, Test(_)) == SelectSeq([i \in 1..Len(s) |-> i], LAMBDA i : Test(s[i]))

RemoveAt(s, i) == SubSeq(s, 1, i - 1) \o SubSeq(s, i + 1, Len(s))

\* Natural numbers beyond 32 bits, as their digits to the base 10000 from
\* the lowest up; zeros at the high end change nothing.
RECURSIVE Big(_)
Big(n) == IF n = 0 THEN <<>> ELSE <<n % 10000>> \o Big(n \div 10000)

LowOf(a) == IF a = <<>> THEN 0 ELSE Head(a)

HighOf(a) == IF a = <<>> THEN <<>> ELSE Tail(a)

RECURSIVE BigSum(_, _, _)
BigSum(a, b, carry) ==
    IF a = <<>> /\ b = <<>> THEN Big(carry)
    ELSE <<(LowOf(a) + LowOf(b) + carry) % 10000>>
         \o BigSum(HighOf(a), HighOf(b), (LowOf(a) + LowOf(b) + carry) \div 10000)

\* a * k + carry for k below 100000
RECURSIVE BigTimes(_, _, _)
BigTimes(a, k, carry) ==
    IF a = <<>> THEN Big(carry)
    ELSE <<(Head(a) * k + carry) % 10000>>
         \o BigTimes(Tail(a), k, (Head(a) * k + carry) \div 10000)

RECURSIVE BigProduct(_, _)
BigProduct(a, b) ==
    IF b = <<>> THEN <<>>
    ELSE BigSum(BigTimes(a, Head(b), 0), <<0>> \o BigProduct(a, Tail(b)), 0)

RECURSIVE BigEqual(_, _)
BigEqual(a, b) ==
    IF a = <<>> /\ b = <<>> THEN TRUE
    ELSE LowOf(a) = LowOf(b) /\ BigEqual(HighOf(a), HighOf(b))

RECURSIVE BigLess(_, _)
BigLess(a, b) ==
    IF b = <<>> THEN FALSE
    ELSE \/ BigLess(HighOf(a), Tail(b))
         \/ BigEqual(HighOf(a), Tail(b)) /\ LowOf(a) < Head(b)

\* d * d
BigSquare(d) == BigProduct(Big(IF d < 0 THEN 0 - d ELSE d), Big(IF d < 0 THEN 0 - d ELSE d))

RECURSIVE BigSumSeq(_, _)
BigSumSeq(s, i) == IF i > Len(s) THEN <<>> ELSE BigSum(s[i], BigSumSeq(s, i + 1), 0)

\* --------------------------------------------------------------- calendar
\* A date is <<year, month, day>>; strftime('%Y-%m-%d') and the ISO string
\* it yields are this triple, datetime / Timestamp values are the
\* proleptic Gregorian ordinal (date.toordinal()).

IsLeap(y) == (y % 4 = 0 /\ y % 100 # 0) \/ y % 400 = 0

DaysInMonth(y, m) ==
    IF m = 2 THEN (IF IsLeap(y) THEN 29 ELSE 28)
    ELSE IF m \in {4, 6, 9, 11} THEN 30 ELSE 31

RECURSIVE DaysBeforeMonth(_, _)
DaysBeforeMonth(y, m) ==
    IF m = 1 THEN 0 ELSE DaysBeforeMonth(y, m - 1) + DaysInMonth(y, m - 1)

DaysBeforeYear(y) ==
    LET p == y - 1 IN p * 365 + (p \div 4) - (p \div 100) + (p \div 400)

\* datetime.strptime(s, '%Y-%m-%d') / pd.to_datetime(s)
ParseDate(s) == DaysBeforeYear(s[1]) + DaysBeforeMonth(s[1], s[2]) + s[3]

\* The year of ordinal o: the first guess is never too large
RECURSIVE YearOf(_, _)
YearOf(o, y) == IF DaysBeforeYear(y + 1) < o THEN YearOf(o, y + 1) ELSE y

RECURSIVE MonthOf(_, _, _)
MonthOf(y, rest, m) ==
    IF rest > DaysBeforeMonth(y, m) + DaysInMonth(y, m) THEN MonthOf(y, rest, m + 1) ELSE m

\* strftime('%Y-%m-%d') of a datetime / Timestamp
FormatDate(o) ==
    LET y == YearOf(o, (o \div 366) + 1)
        rest == o - DaysBeforeYear(y)
        m == MonthOf(y, rest, 1)
    IN  <<y, m, rest - DaysBeforeMonth(y, m)>>

\* date.weekday(): 0 = Monday
Weekday(o) == (o + 6) % 7

DayNames == <<"Monday", "Tuesday", "Wednesday", "Thursday", "Friday", "Saturday", "Sunday">>

\* ---------------------------------------------------------- configuration
\* config.yaml as the generator reads it: config['campaign'] and
\* config['platforms'][p] with the keys of data_generator.py lines 29-40 and
\* 138-148.  avg_engagement_rate is optional (platform_config.get).

PlatformConfig(cpm, ctr, share, creatives) ==
    [avg_cpm |-> cpm, avg_ctr |-> ctr, budget_percentage |-> share,
     num_creatives |-> creatives]

WithEngagement(pc, rate) ==
    [k \in DOMAIN pc \cup {"avg_engagement_rate"} |->
        IF k = "avg_engagement_rate" THEN rate ELSE pc[k]]

\* Typical display / social rates; "high" configures a tiktok avg_ctr of 0.9.
PlatformsConfig(counts, high) ==
    [google_display |-> PlatformConfig(RInt(5), Rat(1, 200), Rat(2, 5), counts[1]),
     meta |-> WithEngagement(PlatformConfig(RInt(8), Rat(1, 100), Rat(7, 20), counts[2]),
                             Rat(1, 25)),
     tiktok |-> WithEngagement(
                    PlatformConfig(RInt(6), IF high THEN Rat(9, 10) ELSE Rat(1, 50),
                                   Rat(1, 4), counts[3]),
                    Rat(3, 50))]

\* The campaign starts on a Friday, so that two days hold a weekday and a
\* weekend day, and spends 30 a day.
CampaignConfig(days, counts, high) ==
    [campaign |-> [brand_name |-> "BaliGlow", campaign_name |-> "Brand Awareness",
                   duration_days |-> days, total_budget |-> 30 * days,
                   start_date |-> <<2024, 2, 23>>],
     platforms |-> PlatformsConfig(counts, high)]

\* Short campaigns: creative counts [3, 2, 2] with typical rates and
\* [1, 5, 2] with the high click-through rate.
SmallConfigs ==
    { CampaignConfig(d, <<3, 2, 2>>, FALSE) : d \in 1..MaxDays }
    \cup { CampaignConfig(d, <<1, 5, 2>>, TRUE) : d \in 1..MaxDays }

\* The four-week campaign with creative counts [3, 2, 2].
FourWeekConfig == CampaignConfig(28, <<3, 2, 2>>, FALSE)

CampaignConfigs == SmallConfigs \cup {FourWeekConfig}

\* Eight days of a campaign with one creative on every platform: the
\* records of a day are three, one a platform.
SingleCreativeConfig == CampaignConfig(8, <<1, 1, 1>>, FALSE)

\* A dictionary without one of its keys
Without(dict, key) == [k \in DOMAIN dict \ {key} |-> dict[k]]

CampaignKeys == <<"brand_name", "campaign_name", "duration_days", "total_budget", "start_date">>

OptionKeys == <<"num_creatives", "avg_cpm", "avg_ctr", "budget_percentage",
                "avg_engagement_rate">>

\* config.yaml files that lack a section, a campaign field, the entry of a
\* platform or an option of a platform
IncompleteConfigs(c) ==
    {Without(c, section) : section \in {"campaign", "platforms"}}
    \cup {[c EXCEPT !.campaign = Without(@, CampaignKeys[k])] : k \in 1..Len(CampaignKeys)}
    \cup {[c EXCEPT !.platforms = Without(@, p)] : p \in DOMAIN c.platforms}
    \cup {[c EXCEPT !.platforms[p] = Without(@, OptionKeys[k])] :
              p \in DOMAIN c.platforms, k \in 1..Len(OptionKeys)}

\* --------------------------------------------------------- random streams
\* A generator is [state, inc, seed42]: the next raw value is its state,
\* and a draw moves the state by inc.  seed(42) puts it in state seed42.

Seed(rng) == [rng EXCEPT !.state = rng.seed42]

Raw(rng, i) == (rng.state + i * rng.inc) % rng.levels

Advance(rng, k) == [rng EXCEPT !.state = Raw(rng, k)]

Streams(levels) ==
    [state : 0..(levels - 1), inc : 0..(levels - 1), seed42 : 0..(levels - 1),
     levels : {levels}]

\* np.random.uniform(lo, hi) = lo + (hi - lo) * u with u = raw / levels in
\* [0, 1); lo and hi are given in hundredths.
Uniform(lo, hi, rng, i) ==
    Rat(lo * rng.levels + (hi - lo) * Raw(rng, i), 100 * rng.levels)

\* random.randint(1, 2) on Python's own generator
RandInt12(rng) == 1 + (Raw(rng, 0) % 2)

\* -------------------------------------------------------------- simulator

platforms == <<"google_display", "meta", "tiktok">>

\* CampaignDataGenerator.__init__ after the seeding: the fields it extracts
NewGenerator(config) ==
    [campaign_config |-> config.campaign,
     platforms_config |-> config.platforms,
     brand_name |-> config.campaign.brand_name,
     campaign_name |-> config.campaign.campaign_name,
     duration_days |-> config.campaign.duration_days,
     total_budget |-> config.campaign.total_budget,
     start_date |-> ParseDate(config.campaign.start_date),
     platforms |-> platforms,
     no_stream |-> [state |-> 0, inc |-> 0, seed42 |-> 0, levels |-> 1]]

_get_date_features(self, date) ==
    LET day_of_week == Weekday(date)
        days_since_start == date - self.start_date
    IN  [day_of_week |-> day_of_week,
         is_weekend |-> day_of_week >= 5,
         days_since_start |-> days_since_start,
         week_number |-> (days_since_start \div 7) + 1]

\* (a learning phase that gets worse: both multipliers move away from 1.0)
LearningPhaseWorsening(days_since_start) ==
    IF days_since_start >= 7
    THEN [isdict |-> FALSE]
    ELSE [isdict |-> TRUE,
          cpm_multiplier |-> Rat(91 + 3 * days_since_start, 70),
          ctr_multiplier |-> Rat(119 - 3 * days_since_start, 140)]

\* Returns 1.0 (isdict = FALSE) or the dictionary of multipliers.
_calculate_learning_phase_multiplier(days_since_start) ==
    IF days_since_start >= 7
    THEN [isdict |-> FALSE]
    ELSE [isdict |-> TRUE,
          cpm_multiplier |-> Rat(91 - 3 * days_since_start, 70),
          ctr_multiplier |-> Rat(119 + 3 * days_since_start, 140)]

\* (fatigue that sets in a week early)
FatigueFromWeekThree(week_number, rng) ==
    IF week_number <= 2
    THEN [isdict |-> FALSE, draws |-> 0]
    ELSE [isdict |-> TRUE, draws |-> 2,
          ctr_multiplier |-> Uniform(75, 85, rng, 0),
          engagement_multiplier |-> Uniform(80, 90, rng, 1)]

\* Returns 1.0 without drawing, or two draws of the numpy stream.
_calculate_ad_fatigue_multiplier(week_number, rng) ==
    IF week_number <= 3
    THEN [isdict |-> FALSE, draws |-> 0]
    ELSE [isdict |-> TRUE, draws |-> 2,
          ctr_multiplier |-> Uniform(75, 85, rng, 0),
          engagement_multiplier |-> Uniform(80, 90, rng, 1)]

_calculate_day_of_week_multiplier(platform, is_weekend) ==
    IF ~is_weekend THEN RInt(1)
    ELSE CASE platform = "google_display" -> Rat(95, 100)
           [] platform = "meta" -> Rat(110, 100)
           [] platform = "tiktok" -> Rat(120, 100)
           [] OTHER -> RInt(1)

_get_creative_multiplier(creative_id) ==
    CASE creative_id = 1 -> Rat(130, 100)
      [] creative_id = 2 -> RInt(1)
      [] creative_id = 3 -> Rat(80, 100)
      [] OTHER -> RInt(1)

HasEngagement(platform) == platform \in {"meta", "tiktok"}

\* (a daily budget that is not split among the creatives of the platform)
DailyBudgetOfPlatform(total_budget, budget_percentage, duration_days, num_creatives) ==
    RDiv(RMul(RInt(total_budget), budget_percentage), RInt(duration_days))

\* lines 144-149: total budget / duration / num_creatives
PlannedDailyBudget(total_budget, budget_percentage, duration_days, num_creatives) ==
    RDiv(RDiv(RMul(RInt(total_budget), budget_percentage), RInt(duration_days)),
         RInt(num_creatives))

\* One record and the numpy stream after its draws.
_generate_daily_metrics(self, date, platform, creative_id, platform_config, rng) ==
    LET date_features == _get_date_features(self, date)
        days_since_start == date_features.days_since_start
        week_number == date_features.week_number
        is_weekend == date_features.is_weekend
        baseline_cpm == platform_config.avg_cpm
        baseline_ctr == platform_config.avg_ctr
        baseline_engagement ==
            IF "avg_engagement_rate" \in DOMAIN platform_config
            THEN platform_config.avg_engagement_rate ELSE Rat(3, 100)
        num_creatives == platform_config.num_creatives
        platform_daily_budget ==
            PlannedDailyBudget(self.total_budget, platform_config.budget_percentage,
                               self.duration_days, num_creatives)
        learning_mult == _calculate_learning_phase_multiplier(days_since_start)
        cpm1 == IF learning_mult.isdict
                THEN RMul(baseline_cpm, learning_mult.cpm_multiplier) ELSE baseline_cpm
        ctr1 == IF learning_mult.isdict
                THEN RMul(baseline_ctr, learning_mult.ctr_multiplier) ELSE baseline_ctr
        fatigue_mult == _calculate_ad_fatigue_multiplier(week_number, rng)
        f == fatigue_mult.draws
        ctr2 == IF fatigue_mult.isdict
                THEN RMul(ctr1, fatigue_mult.ctr_multiplier) ELSE ctr1
        eng2 == IF fatigue_mult.isdict
                THEN RMul(baseline_engagement, fatigue_mult.engagement_multiplier)
                ELSE baseline_engagement
        dow_mult == _calculate_day_of_week_multiplier(platform, is_weekend)
        creative_mult == _get_creative_multiplier(creative_id)
        ctr4 == RMul(RMul(ctr2, dow_mult), creative_mult)
        eng4 == RMul(RMul(eng2, dow_mult), creative_mult)
        cpm == RMul(cpm1, Uniform(90, 110, rng, f))
        ctr == RMul(ctr4, Uniform(90, 110, rng, f + 1))
        engagement_rate == RMul(eng4, Uniform(90, 110, rng, f + 2))
        actual_spend == RMul(platform_daily_budget, Uniform(95, 105, rng, f + 3))
        impressions == PyInt(RMul(RDiv(actual_spend, cpm), RInt(1000)))
        reach == PyInt(RMul(RInt(impressions), Uniform(70, 90, rng, f + 4)))
        clicks == PyInt(RMul(RInt(impressions), ctr))
        engagements == IF HasEngagement(platform)
                       THEN PyInt(RMul(RInt(impressions), engagement_rate)) ELSE 0
        video_views == PyInt(RMul(RInt(impressions), Uniform(80, 95, rng, f + 5)))
    IN  [row |-> [date |-> FormatDate(date),
                  platform |-> platform,
                  creative_id |-> <<platform, "creative", creative_id>>,
                  impressions |-> impressions,
                  reach |-> reach,
                  clicks |-> clicks,
                  spend |-> Round2(actual_spend),
                  engagements |-> engagements,
                  video_views |-> video_views,
                  cpm |-> Round2(cpm),
                  ctr |-> Round4(ctr),
                  engagement_rate |-> IF HasEngagement(platform)
                                      THEN Round4(engagement_rate) ELSE 0],
         rng |-> Advance(rng, f + 6)]

\* (loops over range(num_creatives) would number the creatives from 0)
LoopOrderFromCreativeZero(self) ==
    LET OfCreative(p, c) == AsSeq([day \in 1..self.duration_days |-> <<p, c - 1, day - 1>>])
        RECURSIVE OfPlatform(_, _)
        OfPlatform(p, c) ==
            IF c > self.platforms_config[p].num_creatives THEN <<>>
            ELSE OfCreative(p, c) \o OfPlatform(p, c + 1)
        RECURSIVE All(_)
        All(i) == IF i > Len(self.platforms) THEN <<>>
                  ELSE OfPlatform(self.platforms[i], 1) \o All(i + 1)
    IN  All(1)

\* The (platform, creative ordinal, day) triples in the order of the three
\* nested loops of generate_campaign_data.
LoopOrder(self) ==
    LET OfCreative(p, c) == AsSeq([day \in 1..self.duration_days |-> <<p, c, day - 1>>])
        RECURSIVE OfPlatform(_, _)
        OfPlatform(p, c) ==
            IF c > self.platforms_config[p].num_creatives THEN <<>>
            ELSE OfCreative(p, c) \o OfPlatform(p, c + 1)
        RECURSIVE All(_)
        All(i) == IF i > Len(self.platforms) THEN <<>>
                  ELSE OfPlatform(self.platforms[i], 1) \o All(i + 1)
    IN  All(1)

\* (a loop that counts 6 draws for every record, the fatigue draws left out)
SixDrawsOfRecord(self, day) == 6

\* The draws one call of _generate_daily_metrics takes from the stream.
DrawsOfRecord(self, day) ==
    _calculate_ad_fatigue_multiplier(
        _get_date_features(self, self.start_date + day).week_number, Seed(self.no_stream)
    ).draws + 6

\* all_data after the loops, with the stream as the loops leave it: record
\* i is generated from the stream as the records before it left it.
GenerateLoop(self, order, rng) ==
    LET draws == AsSeq([i \in 1..Len(order) |-> DrawsOfRecord(self, order[i][3])])
        late == {i \in 1..Len(order) : draws[i] > 6}
        Before(i) == 6 * (i - 1) + 2 * Cardinality({j \in late : j < i})
        Daily(i) ==
            _generate_daily_metrics(self, self.start_date + order[i][3], order[i][1],
                order[i][2], self.platforms_config[order[i][1]], Advance(rng, Before(i)))
    IN  [all_data |-> AsSeq([i \in 1..Len(order) |-> Daily(i).row]),
         rng |-> Advance(rng, Before(Len(order) + 1))]

\* pd.DataFrame(all_data) with the campaign metadata columns
WithMetadata(self, row) ==
    [k \in DOMAIN row \cup {"campaign_id", "campaign_name", "brand_name"} |->
        CASE k = "campaign_id" -> "CAMP_001"
          [] k = "campaign_name" -> self.campaign_name
          [] k = "brand_name" -> self.brand_name
          [] OTHER -> row[k]]

column_order ==
    <<"campaign_id", "campaign_name", "brand_name", "date", "platform", "creative_id",
      "impressions", "reach", "clicks", "spend", "engagements", "video_views", "cpm",
      "ctr", "engagement_rate">>

\* ---------------------------------------------------------------- injector

\* DataFrame.sample(n) on the rows idxs: n distinct rows, each picked by one
\* draw of the numpy stream among the rows not yet picked.
RECURSIVE Sample(_, _, _, _)
Sample(idxs, n, rng, i) ==
    IF n = 0 THEN <<>>
    ELSE LET j == ((Raw(rng, i) * Len(idxs)) \div rng.levels) + 1
         IN  <<idxs[j]>> \o Sample(RemoveAt(idxs, j), n - 1, rng, i + 1)

Drop(df, rows) ==
    LET gone == {rows[i] : i \in 1..Len(rows)}
    IN  SelectSeq([i \in 1..Len(df) |-> [at |-> i, row |-> df[i]]],
                  LAMBDA e : e.at \notin gone)

\* line 232: only if we have enough data
EnoughDataFrom5(n) == n >= 5

EnoughData(n) == n > 5

\* lines 230-235: the removals, platform by platform
RECURSIVE DropMissingDays(_, _, _, _, _)
DropMissingDays(self, i, df_modified, np, py) ==
    IF i > Len(self.platforms) THEN [df |-> df_modified, np |-> np, py |-> py]
    ELSE LET platform == self.platforms[i]
             platform_data == SelectIdx(df_modified, LAMBDA r : r.platform = platform)
         IN  IF EnoughData(Len(platform_data))
             THEN LET num_missing == RandInt12(py)
                      rows_to_drop == Sample(platform_data, num_missing, np, 0)
                      kept == Drop(df_modified, rows_to_drop)
                  IN  DropMissingDays(self, i + 1, AsSeq([k \in 1..Len(kept) |-> kept[k].row]),
                                      Advance(np, num_missing), Advance(py, 1))
             ELSE DropMissingDays(self, i + 1, df_modified, np, py)

\* spend / impressions * 1000 and clicks / impressions on numpy scalars: a
\* zero divisor gives inf or nan, not an exception
RecomputedCpm(spend, impressions) ==
    IF impressions = 0 THEN (IF spend = 0 THEN NaN ELSE Inf)
    ELSE Round2(RMul(RDiv(Money(spend), RInt(impressions)), RInt(1000)))

RecomputedCtr(clicks, impressions) ==
    IF impressions = 0 THEN (IF clicks = 0 THEN NaN ELSE Inf)
    ELSE Round4(Rat(clicks, impressions))

\* (an injector that leaves the clicks of the outlier as they were)
InflateWithoutClicks(row, multiplier) ==
    LET Scaled(v) == PyInt(RMul(RInt(v), multiplier))
        impressions == Scaled(row.impressions)
    IN  [row EXCEPT !.impressions = impressions,
                    !.reach = Scaled(row.reach),
                    !.engagements = Scaled(row.engagements),
                    !.video_views = Scaled(row.video_views),
                    !.cpm = RecomputedCpm(row.spend, impressions),
                    !.ctr = RecomputedCtr(row.clicks, impressions)]

\* lines 237-265: the inflated record
Inflate(row, multiplier) ==
    LET Scaled(v) == PyInt(RMul(RInt(v), multiplier))
        impressions == Scaled(row.impressions)
        clicks == Scaled(row.clicks)
    IN  [row EXCEPT !.impressions = impressions,
                    !.reach = Scaled(row.reach),
                    !.clicks = clicks,
                    !.engagements = Scaled(row.engagements),
                    !.video_views = Scaled(row.video_views),
                    !.cpm = RecomputedCpm(row.spend, impressions),
                    !.ctr = RecomputedCtr(clicks, impressions)]

\* The multiplier of line 239, drawn after the one draw of sample(n=1).
OutlierMultiplier(np) == Uniform(200, 300, np, 1)

_add_data_quality_issues(self, df, np, py) ==
    LET dropped == DropMissingDays(self, 1, df, np, py)
        df_modified == dropped.df
        outlier_idx == Sample([i \in 1..Len(df_modified) |-> i], 1, dropped.np, 0)[1]
        multiplier == OutlierMultiplier(dropped.np)
    IN  [df |-> AsSeq([i \in 1..Len(df_modified) |->
                    IF i = outlier_idx THEN Inflate(df_modified[i], multiplier)
                    ELSE df_modified[i]]),
         outlier_idx |-> outlier_idx,
         before |-> df_modified,
         np |-> Advance(dropped.np, 2), py |-> dropped.py]

\* ------------------------------------------------------------ final order

PlatformOrder(p) ==
    CASE p = "google_display" -> 1 [] p = "meta" -> 2 [] p = "tiktok" -> 3 [] OTHER -> 4

\* The ISO date string as the number its digits spell: strings of one
\* width compare as these numbers do.
DateDigits(d) == d[1] * 10000 + d[2] * 100 + d[3]

\* The sort key (date, platform, creative_id) of a row, the last two as one
\* number; creative ordinals below 10 compare as their decimal strings do.
SortKey(row) ==
    <<DateDigits(row.date), PlatformOrder(row.platform) * 10 + row.creative_id[3]>>

KeyLess(a, b) == a[1] < b[1] \/ (a[1] = b[1] /\ a[2] < b[2])

\* A stable sort of df by keys: row i goes to the place counting the rows
\* with a smaller key and the earlier rows with an equal key.
SortedBy(df, keys) ==
    LET n == Len(df)
        place == AsSeq([i \in 1..n |->
                    1 + Cardinality({j \in 1..n : \/ KeyLess(keys[j], keys[i])
                                                  \/ (keys[j] = keys[i] /\ j < i)})])
        from == AsSeq([k \in 1..n |-> CHOOSE i \in 1..n : place[i] = k])
    IN  AsSeq([k \in 1..n |-> df[from[k]]])

\* (a frame returned in the order the injector left it in)
NotSorted(df) == df

\* df.sort_values(['date', 'platform', 'creative_id']).reset_index(drop=True)
sort_values(df) == SortedBy(df, AsSeq([i \in 1..Len(df) |-> SortKey(df[i])]))

\* generate_campaign_data: the frame before the injector (raw), the frame
\* returned (df), and both streams as the call leaves them
generate_campaign_data(self, np, py) ==
    LET loops == GenerateLoop(self, LoopOrder(self), np)
        raw == AsSeq([i \in 1..Len(loops.all_data) |-> WithMetadata(self, loops.all_data[i])])
        issues == _add_data_quality_issues(self, raw, loops.rng, py)
    IN  [raw |-> raw,
         corrupted |-> issues.df,
         outlier_idx |-> issues.outlier_idx,
         before_outlier |-> issues.before,
         df |-> sort_values(issues.df),
         np |-> issues.np, py |-> issues.py]

\* The first of the keys that dict does not have, "" if it has them all
FirstMissing(keys, dict) ==
    IF \A k \in 1..Len(keys) : keys[k] \in DOMAIN dict THEN ""
    ELSE keys[CHOOSE k \in 1..Len(keys) :
                  /\ keys[k] \notin DOMAIN dict
                  /\ \A j \in 1..(k - 1) : keys[j] \in DOMAIN dict]

\* __init__, lines 29-38: the key whose lookup raises KeyError, "" if none
MissingOfInit(config) ==
    IF "campaign" \notin DOMAIN config THEN "campaign"
    ELSE IF "platforms" \notin DOMAIN config THEN "platforms"
    ELSE FirstMissing(CampaignKeys, config.campaign)

\* The key whose lookup raises KeyError in the loops of a platform: the
\* platform's entry (line 278), num_creatives (279) or, in the first record
\* of the platform if it has one, avg_cpm, avg_ctr (138-139) or
\* budget_percentage (146); avg_engagement_rate has a default (140)
MissingOfPlatform(self, platform) ==
    IF platform \notin DOMAIN self.platforms_config THEN platform
    ELSE IF "num_creatives" \notin DOMAIN self.platforms_config[platform] THEN "num_creatives"
    ELSE IF self.platforms_config[platform].num_creatives < 1 \/ self.duration_days < 1 THEN ""
    ELSE FirstMissing(<<"avg_cpm", "avg_ctr", "budget_percentage">>,
                      self.platforms_config[platform])

\* The platforms whose loops raise
Incomplete(self) ==
    {k \in 1..Len(self.platforms) : MissingOfPlatform(self, self.platforms[k]) # ""}

FirstIncomplete(self) == CHOOSE k \in Incomplete(self) : \A j \in Incomplete(self) : k <= j

\* The generator with the platforms whose loops run to their end
UpTo(self, k) == [self EXCEPT !.platforms = SubSeq(@, 1, k - 1)]

\* generate_campaign_data that raises KeyError in the loops of platform k:
\* the records appended to all_data before, the draws they took, and the
\* stream as they left it
RaisedInLoop(self, k, np) ==
    [error |-> "KeyError",
     key |-> MissingOfPlatform(self, self.platforms[k]),
     generated |-> Len(LoopOrder(UpTo(self, k))),
     draws |-> SumSeq(AsSeq([i \in 1..Len(LoopOrder(UpTo(self, k))) |->
                        DrawsOfRecord(self, LoopOrder(UpTo(self, k))[i][3])])),
     np |-> GenerateLoop(UpTo(self, k), LoopOrder(UpTo(self, k)), np).rng]

\* ------------------------------------------------------------ the CSV file
\* A file is absent, or a header line and the lines under it; a line is the
\* tuple of its fields.  A file without a header line cannot be parsed.

MissingFile == [exists |-> FALSE]

EmptyFile == [exists |-> TRUE, header |-> <<>>, lines |-> <<>>]

\* df.to_csv(output_path, index=False): the columns in column_order
to_csv(df) ==
    [exists |-> TRUE,
     header |-> column_order,
     lines |-> AsSeq([i \in 1..Len(df) |->
                  AsSeq([c \in 1..Len(column_order) |-> df[i][column_order[c]]])])]

\* pd.read_csv raises on a file it cannot parse
Parses(file) ==
    /\ Len(file.header) > 0
    /\ \A i \in 1..Len(file.lines) : Len(file.lines[i]) = Len(file.header)

Column(header, name) == CHOOSE c \in 1..Len(header) : header[c] = name

\* pd.read_csv(data_path): a frame of the header's columns
read_csv(file) ==
    [columns |-> file.header,
     rows |-> AsSeq([i \in 1..Len(file.lines) |->
                 [name \in {file.header[c] : c \in 1..Len(file.header)} |->
                     file.lines[i][Column(file.header, name)]]])]

\* Files of the generator's columns that no run of the generator wrote.  A
\* line is given by its day after 2024-02-23 (a Friday), its platform and
\* creative ordinal, and its impressions, clicks, spend, cpm and ctr.
Line(day, platform, creative, impressions, clicks, spend, cpm, ctr) ==
    [campaign_id |-> "CAMP_001", campaign_name |-> "Brand Awareness",
     brand_name |-> "BaliGlow",
     date |-> FormatDate(ParseDate(<<2024, 2, 23>>) + day),
     platform |-> platform,
     creative_id |-> <<platform, "creative", creative>>,
     impressions |-> impressions, reach |-> impressions, clicks |-> clicks,
     spend |-> spend, engagements |-> 0, video_views |-> 0,
     cpm |-> cpm, ctr |-> ctr, engagement_rate |-> 0]

FileOf(lines) ==
    to_csv(AsSeq([i \in 1..Len(lines) |->
        Line(lines[i][1], lines[i][2], lines[i][3], lines[i][4], lines[i][5], lines[i][6],
             lines[i][7], lines[i][8])]))

\* The impressions [10, 11, 9, 10, 12, 1000] of one creative on six days of
\* the first and the third week; no clicks at all, 5.00 spent a day.
SampleValues == <<10, 11, 9, 10, 12, 1000>>

SampleDays == <<0, 1, 2, 14, 15, 16>>

OutlierSample ==
    FileOf(AsSeq([i \in 1..Len(SampleValues) |->
        <<SampleDays[i], "meta", 1, SampleValues[i], 0, 50000, 50000, 0>>]))

\* Three weeks of two platforms, the second week of the campaign missing
\* and the first row of meta's creative 1 missing: 100 impressions, 1 click
\* and 5.00 spent a row, but 1.00 on the first row of four days and 500
\* impressions and 40 clicks a row on the last day.  The creatives 1 and 2
\* of meta have one ctr.
GappedDays == <<0, 1, 14, 15, 21, 22>>

GappedCreatives == <<<<"meta", 1>>, <<"meta", 2>>, <<"meta", 3>>, <<"tiktok", 1>>>>

GappedCtr(day, creative) ==
    CASE creative = <<"meta", 3>> -> 20000
      [] creative = <<"tiktok", 1>> -> (IF day < 7 THEN 30000 ELSE IF day < 21 THEN 24000 ELSE 12000)
      [] OTHER -> 10000

GappedLine(day, creative, first) ==
    <<day, creative[1], creative[2],
      IF day = 22 THEN 500 ELSE 100,
      IF day = 22 THEN 40 ELSE 1,
      IF first /\ day < 21 THEN 10000 ELSE 50000,
      IF day < 14 THEN 60000 ELSE 50000,
      GappedCtr(day, creative)>>

GappedOfDay(day) ==
    SelectSeq(AsSeq([c \in 1..Len(GappedCreatives) |->
                  GappedLine(day, GappedCreatives[c], c = (IF day = 0 THEN 2 ELSE 1))]),
              LAMBDA line : ~(line[1] = 0 /\ line[2] = "meta" /\ line[3] = 1))

RECURSIVE GappedLines(_)
GappedLines(d) ==
    IF d > Len(GappedDays) THEN <<>> ELSE GappedOfDay(GappedDays[d]) \o GappedLines(d + 1)

GappedWeeks == FileOf(GappedLines(1))

\* Two days of two platforms on which nothing was delivered: every count and
\* the spend are 0.
NothingDelivered ==
    FileOf(<<<<0, "meta", 1, 0, 0, 0, 0, 0>>, <<0, "tiktok", 1, 0, 0, 0, 0, 0>>,
             <<1, "meta", 1, 0, 0, 0, 0, 0>>, <<1, "tiktok", 1, 0, 0, 0, 0, 0>>>>)

\* Three days of one creative whose impressions 100, 200, 400 and rates 0.01,
\* 0.06, 0.02 all differ: 1, 12 and 8 clicks, 21 of 700 impressions.
EvenRates ==
    FileOf(<<<<0, "meta", 1, 100, 1, 50000, 500000, 10000>>,
             <<1, "meta", 1, 200, 12, 50000, 250000, 60000>>,
             <<2, "meta", 1, 400, 8, 50000, 125000, 20000>>>>)

\* ---------------------------------------------------------- ingestion agent

None == [none |-> TRUE]

EmptyDict == [k \in {} |-> 0]

NoError == ""

\* DataIngestionAgent.__init__
NewAgent == [raw_data |-> None, processed_data |-> None, data_quality_report |-> EmptyDict]

Returns(self, value) == [self |-> self, error |-> NoError, value |-> value]

\* (an exception raised after the report has been started)
RaisesWithReportStarted(self, error) ==
    [self |-> [self EXCEPT !.data_quality_report = [total_rows |-> 0]], error |-> error,
     value |-> None]

Raises(self, error) == [self |-> self, error |-> error, value |-> None]

\* (a load that swallows the exception of read_csv and returns nothing)
LoadDataSwallowingErrors(self, file) ==
    IF ~file.exists \/ ~Parses(file) THEN Returns(self, None)
    ELSE Returns([self EXCEPT !.raw_data = read_csv(file)], read_csv(file))

load_data(self, file) ==
    IF ~file.exists THEN Raises(self, "Data file not found")
    ELSE IF ~Parses(file) THEN Raises(self, "Error loading data")
    ELSE Returns([self EXCEPT !.raw_data = read_csv(file)], read_csv(file))

\* Series.unique(): the values in the order of their first row
FirstRows(values) ==
    SelectSeq(AsSeq([i \in 1..Len(values) |-> i]),
        LAMBDA i : \A j \in 1..(i - 1) : values[j] # values[i])

At(values, places) == AsSeq([k \in 1..Len(places) |-> values[places[k]]])

Unique(values) == At(values, FirstRows(values))

Members(values) == {values[i] : i \in 1..Len(values)}

ColumnOf(rows, name) == AsSeq([i \in 1..Len(rows) |-> rows[i][name]])

MinOf(values) == CHOOSE v \in Members(values) : \A i \in 1..Len(values) : v <= values[i]

MaxOf(values) == CHOOSE v \in Members(values) : \A i \in 1..Len(values) : v >= values[i]

\* Series.sum() skips the cells that are nan
SumOf(values) == SumSeq(AsSeq([i \in 1..Len(values) |-> IF IsNull(values[i]) THEN 0 ELSE values[i]]))

\* The place of every value in ascending order, equal values in the order
\* they have
Places(values) ==
    AsSeq([i \in 1..Len(values) |->
        1 + Cardinality({j \in 1..Len(values) : \/ values[j] < values[i]
                                                \/ (values[j] = values[i] /\ j < i)})])

\* The rows put to their places
Placed(rows, place) ==
    AsSeq([k \in 1..Len(rows) |-> rows[CHOOSE i \in 1..Len(rows) : place[i] = k]])

Ascending(values) == Placed(values, Places(values))

\* Linear interpolation between the two order statistics around pos4 / 4
Interpolated4(sorted, pos4) ==
    IF pos4 % 4 = 0 THEN 4 * sorted[(pos4 \div 4) + 1]
    ELSE 4 * sorted[(pos4 \div 4) + 1]
         + (pos4 % 4) * (sorted[(pos4 \div 4) + 2] - sorted[(pos4 \div 4) + 1])

\* 4 * Series.quantile(q / 4)
Quantile4(values, q) == Interpolated4(Ascending(values), (Len(values) - 1) * q)

\* (rows on a fence flagged with the rows outside)
OutsideOrOnFence(rows, metric, Q1, Q3) ==
    SelectSeq(rows, LAMBDA r : \/ 8 * r[metric] <= 2 * Q1 - 3 * (Q3 - Q1)
                               \/ 8 * r[metric] >= 2 * Q3 + 3 * (Q3 - Q1))

\* The rows outside [Q1 - 1.5 IQR, Q3 + 1.5 IQR], with 4 * Q1 and 4 * Q3
Outside(rows, metric, Q1, Q3) ==
    SelectSeq(rows, LAMBDA r : \/ 8 * r[metric] < 2 * Q1 - 3 * (Q3 - Q1)
                               \/ 8 * r[metric] > 2 * Q3 + 3 * (Q3 - Q1))

\* lines 91-98
OutlierRows(rows, metric) ==
    Outside(rows, metric, Quantile4(ColumnOf(rows, metric), 1),
            Quantile4(ColumnOf(rows, metric), 3))

\* lines 100-106
OutlierEntry(rows, outliers, metric) ==
    [count |-> Len(outliers),
     percentage |-> Round2(Rat(100 * Len(outliers), Len(rows))),
     max_value |-> MaxOf(ColumnOf(outliers, metric)),
     dates |-> AsSeq([i \in 1..(IF Len(outliers) < 3 THEN Len(outliers) ELSE 3) |->
                   FormatDate(outliers[i].date)])]

Outliers(df, found) ==
    [m \in {m \in {"impressions", "clicks", "spend"} : Len(found[m]) > 0} |->
        OutlierEntry(df, found[m], m)]

ExpectedVsActual(expected_rows, actual_rows) ==
    [expected_rows |-> expected_rows,
     actual_rows |-> actual_rows,
     missing_rows |-> expected_rows - actual_rows,
     completeness_percentage |-> PyRound(Rat(actual_rows * 100, expected_rows))]

\* lines 77-88: one platform's entry of data_completeness
Completeness(df, platform, expected_days) ==
    ExpectedVsActual(expected_days * 3, Len(SelectSeq(df, LAMBDA r : r.platform = platform)))

SpendOf(df, platform) ==
    SumOf(ColumnOf(SelectSeq(df, LAMBDA r : r.platform = platform), "spend"))

SpendShare(platform_spend, total_spend) ==
    [spend |-> Round2(Money(platform_spend)),
     percentage |-> IF total_spend = 0 THEN NaN
                    ELSE Round2(Rat(100 * platform_spend, total_spend))]

\* lines 108-120
BudgetSummary(df, found, total_spend) ==
    [total_spend |-> Round2(Money(total_spend)),
     by_platform |-> [p \in found |-> SpendShare(SpendOf(df, p), total_spend)]]

\* pd.to_datetime(df['date'])
WithTimestamps(rows) == AsSeq([i \in 1..Len(rows) |-> [rows[i] EXCEPT !.date = ParseDate(@)]])

NullCounts(df) ==
    [c \in {c \in {"cpm", "ctr"} : \E i \in 1..Len(df) : IsNull(df[i][c])} |->
        Cardinality({i \in 1..Len(df) : IsNull(df[i][c])})]

\* lines 55-120: the report of a frame with its first and last date and its
\* platforms
Report(df, first, last, unique) ==
    [total_rows |-> Len(df),
     date_range |-> [start |-> FormatDate(first),
                     end |-> FormatDate(last),
                     days_covered |-> (last - first) + 1],
     platforms |-> unique,
     missing_values |-> NullCounts(df),
     data_completeness |-> [p \in Members(unique) |-> Completeness(df, p, (last - first) + 1)],
     outliers |-> Outliers(df, [m \in {"impressions", "clicks", "spend"} |-> OutlierRows(df, m)]),
     budget_summary |-> BudgetSummary(df, Members(unique), SumOf(ColumnOf(df, "spend")))]

ReportOf(df) ==
    Report(df, MinOf(ColumnOf(df, "date")), MaxOf(ColumnOf(df, "date")),
           Unique(ColumnOf(df, "platform")))

Reported(self, report) == Returns([self EXCEPT !.data_quality_report = report], report)

validate_data_quality(self) ==
    IF self.raw_data = None THEN Raises(self, "No data loaded. Call load_data() first.")
    ELSE Reported(self, ReportOf(WithTimestamps(self.raw_data.rows)))

DerivedColumns ==
    <<"days_since_start", "week_number", "day_of_week", "day_name", "is_weekend",
      "month", "year">>

Extended(row, more) ==
    [k \in DOMAIN row \cup DOMAIN more |-> IF k \in DOMAIN more THEN more[k] ELSE row[k]]

\* df.sort_values('date').reset_index(drop=True): the rows of one date in
\* the order the file has them
SortedByDate(rows) == Placed(rows, Places(ColumnOf(rows, "date")))

\* (days counted from 1)
DerivedCountingFromOne(date, start_date) ==
    [days_since_start |-> date - start_date + 1,
     week_number |-> ((date - start_date + 1) \div 7) + 1,
     day_of_week |-> Weekday(date),
     day_name |-> DayNames[Weekday(date) + 1],
     is_weekend |-> Weekday(date) >= 5,
     month |-> FormatDate(date)[2],
     year |-> FormatDate(date)[1]]

\* (weeks of six days)
DerivedInSixDayWeeks(date, start_date) ==
    [days_since_start |-> date - start_date,
     week_number |-> ((date - start_date) \div 6) + 1,
     day_of_week |-> Weekday(date),
     day_name |-> DayNames[Weekday(date) + 1],
     is_weekend |-> Weekday(date) >= 5,
     month |-> FormatDate(date)[2],
     year |-> FormatDate(date)[1]]

\* lines 148-157: the columns added to one row
Derived(date, start_date) ==
    [days_since_start |-> date - start_date,
     week_number |-> ((date - start_date) \div 7) + 1,
     day_of_week |-> Weekday(date),
     day_name |-> DayNames[Weekday(date) + 1],
     is_weekend |-> Weekday(date) >= 5,
     month |-> FormatDate(date)[2],
     year |-> FormatDate(date)[1]]

DerivedFrame(columns, sorted, start_date) ==
    [columns |-> columns \o DerivedColumns,
     rows |-> AsSeq([i \in 1..Len(sorted) |->
                 Extended(sorted[i], Derived(sorted[i].date, start_date))])]

DeriveSorted(columns, sorted) == DerivedFrame(columns, sorted, MinOf(ColumnOf(sorted, "date")))

\* lines 141-161: the frame add_derived_features makes of raw_data
Derive(raw_data) == DeriveSorted(raw_data.columns, SortedByDate(WithTimestamps(raw_data.rows)))

Processed(self, df) == Returns([self EXCEPT !.processed_data = df], df)

\* (a derivation that also asks for the quality report)
AddDerivedNeedingReport(self) ==
    IF self.raw_data = None \/ self.data_quality_report = EmptyDict
    THEN Raises(self, "No data loaded. Call load_data() first.")
    ELSE Processed(self, Derive(self.raw_data))

\* (features added to the processed data when there is one already)
AddDerivedFeaturesToProcessed(self) ==
    IF self.raw_data = None THEN Raises(self, "No data loaded. Call load_data() first.")
    ELSE IF self.processed_data = None THEN Processed(self, Derive(self.raw_data))
    ELSE Processed(self, [columns |-> self.processed_data.columns,
                          rows |-> AsSeq([i \in 1..Len(Derive(self.raw_data).rows) |->
                              Extended(self.processed_data.rows[1],
                                       Derive(self.raw_data).rows[i])])])

add_derived_features(self) ==
    IF self.raw_data = None THEN Raises(self, "No data loaded. Call load_data() first.")
    ELSE Processed(self, Derive(self.raw_data))

platform_mapping(platform) ==
    CASE platform = "google_display" -> "Google Display"
      [] platform = "meta" -> "Meta"
      [] platform = "tiktok" -> "TikTok"
      [] OTHER -> "nan"

\* Series.round(k) leaves nan and inf as they are
RoundMoney(v) == IF v < 0 THEN v ELSE Round2(Money(v))

RoundRate(v) == IF v < 0 THEN v ELSE Round4(Rate(v))

\* lines 182-195: one row normalised
Normal(row) ==
    Extended([row EXCEPT !.cpm = RoundMoney(@),
                         !.ctr = RoundRate(@),
                         !.engagement_rate = RoundRate(@),
                         !.spend = RoundMoney(@)],
             [platform_display |-> platform_mapping(row.platform)])

Normalized(df) ==
    [columns |-> IF \E c \in 1..Len(df.columns) : df.columns[c] = "platform_display"
                 THEN df.columns ELSE Append(df.columns, "platform_display"),
     rows |-> AsSeq([i \in 1..Len(df.rows) |-> Normal(df.rows[i])])]

normalize_platforms(self) ==
    IF self.processed_data = None
    THEN Raises(self, "No processed data. Call add_derived_features() first.")
    ELSE Processed(self, Normalized(self.processed_data))

\* Series.mean() over the cells that are no nan, in the units of the cells
MeanOfKnown(known) == Rat(SumSeq(known), Len(known))

MeanOf(values) == MeanOfKnown(SelectSeq(values, LAMBDA v : ~IsNull(v)))

Statistics(rows) ==
    [impressions |-> SumOf(ColumnOf(rows, "impressions")),
     clicks |-> SumOf(ColumnOf(rows, "clicks")),
     spend |-> Round2(Money(SumOf(ColumnOf(rows, "spend")))),
     avg_cpm |-> Round2(RDiv(MeanOf(ColumnOf(rows, "cpm")), RInt(10000))),
     avg_ctr |-> Round4(RDiv(MeanOf(ColumnOf(rows, "ctr")), RInt(1000000))),
     engagements |-> SumOf(ColumnOf(rows, "engagements"))]

Overall(all) ==
    [total_impressions |-> all.impressions,
     total_clicks |-> all.clicks,
     total_spend |-> all.spend,
     avg_cpm |-> all.avg_cpm,
     avg_ctr |-> all.avg_ctr,
     total_engagemnets |-> all.engagements]

ByPlatform(of) ==
    [impression |-> of.impressions,
     clicks |-> of.clicks,
     spend |-> of.spend,
     avg_cpm |-> of.avg_cpm,
     avg_ctr |-> of.avg_ctr,
     engagements |-> of.engagements]

Summary(df, found) ==
    [overall |-> Overall(Statistics(df)),
     by_platform |-> [p \in found |->
                         ByPlatform(Statistics(SelectSeq(df, LAMBDA r : r.platform = p)))]]

get_summary_statistics(self) ==
    IF self.processed_data = None THEN Raises(self, "No processed data available.")
    ELSE Returns(self, Summary(self.processed_data.rows,
                               Members(Unique(ColumnOf(self.processed_data.rows, "platform")))))

\* run() before its first step
Begin(self) ==
    [self |-> self, error |-> NoError, value |-> None, trace |-> <<>>, values |-> EmptyDict]

\* One step of run() done: the agent, the steps so far and what they returned
Stage(so_far, name, call) ==
    [self |-> call.self, error |-> call.error, value |-> call.value,
     trace |-> Append(so_far.trace, name),
     values |-> Extended(so_far.values, [k \in {name} |-> call.value])]

\* The next step of run(), unless an exception has ended it
Then(so_far, name, call) ==
    IF so_far.error # NoError THEN so_far ELSE Stage(so_far, name, call)

\* lines 266-272, or the exception on its way to the caller
Return(done) ==
    IF done.error # NoError THEN [done EXCEPT !.value = None]
    ELSE [done EXCEPT !.value =
            <<done.self.processed_data,
              [data_quality |-> done.values["validate_data_quality"],
               summary_statistics |-> done.values["get_summary_statistics"]]>>]

\* Step 5: Generate summary
Step5(so_far) ==
    Return(Then(so_far, "get_summary_statistics", get_summary_statistics(so_far.self)))

\* Step 4: Normalize platform
Step4(so_far) ==
    Step5(Then(so_far, "normalize_platforms", normalize_platforms(so_far.self)))

\* (step 3 of a pipeline that leaves the normalisation out)
Step3WithoutNormalize(so_far) ==
    Step5(Then(so_far, "add_derived_features", add_derived_features(so_far.self)))

\* Step 3: Add derived features
Step3(so_far) ==
    Step4(Then(so_far, "add_derived_features", add_derived_features(so_far.self)))

\* Step 2: Validate quality
Step2(so_far) ==
    Step3(Then(so_far, "validate_data_quality", validate_data_quality(so_far.self)))

\* Step 1: Load Data
Step1(so_far, file) == Step2(Then(so_far, "load_data", load_data(so_far.self, file)))

\* DataIngestionAgent.run
run(self, file) == Step1(Begin(self), file)

\* ------------------------------------------------------ performance analyzer
\* The data of the analyzer is the processed frame of the ingestion agent:
\* dates are Timestamps, spend and cpm count 1/10000, ctr and
\* engagement_rate 1/1000000.  A rounded result is kept in the unit of the
\* column it comes from; percentages and ratios count 1/10000.

\* PerformanceAnalyzerAgent.__init__
NewAnalyzer(processed_data) == [data |-> processed_data, analysis_result |-> EmptyDict]

\* df[df[column] == value]
RowsOf(rows, column, value) == SelectSeq(rows, LAMBDA r : r[column] = value)

PlaceIn(values, value) == CHOOSE k \in 1..Len(values) : values[k] = value

Finite(values) == SelectSeq(values, LAMBDA v : v >= 0)

\* round(Series.mean(), k), with step the size of the k-th decimal in the
\* unit of the column: nan of no number at all, inf if an inf is among them
RoundedMean(values, finite, step) ==
    IF \E i \in 1..Len(values) : values[i] = Inf THEN Inf
    ELSE IF finite = <<>> THEN NaN
    ELSE step * PyRound(Rat(SumSeq(finite), Len(finite) * step))

MeanRounded(values, step) == RoundedMean(values, Finite(values), step)

\* round(a / b, 2) of two numpy sums, a counting 1 / unit: a zero divisor
\* gives inf or nan and a warning, no exception
Divided2(a, unit, b) ==
    IF b = 0 THEN (IF a = 0 THEN NaN ELSE Inf) ELSE Round2(Rat(a, unit * b))

\* round((part / total) * 100, 2)
Percent2(part, total) ==
    IF total = 0 THEN (IF part = 0 THEN NaN ELSE Inf) ELSE Round2(Rat(100 * part, total))

\* lines 34-49
OverallKpis(df) ==
    [total_impressions |-> SumOf(ColumnOf(df, "impressions")),
     total_reach |-> SumOf(ColumnOf(df, "reach")),
     total_clicks |-> SumOf(ColumnOf(df, "clicks")),
     total_spend |-> Round2(Money(SumOf(ColumnOf(df, "spend")))),
     total_engagements |-> SumOf(ColumnOf(df, "engagements")),
     total_video_views |-> SumOf(ColumnOf(df, "video_views")),
     average_cpm |-> MeanRounded(ColumnOf(df, "cpm"), 100),
     average_ctr |-> MeanRounded(ColumnOf(df, "ctr"), 100),
     average_engagement_rate |-> MeanRounded(ColumnOf(df, "engagement_rate"), 100),
     frequency |-> Divided2(SumOf(ColumnOf(df, "impressions")), 1,
                            SumOf(ColumnOf(df, "reach"))),
     cost_per_click |-> Divided2(SumOf(ColumnOf(df, "spend")), 10000,
                                 SumOf(ColumnOf(df, "clicks"))),
     campaign_days |-> MaxOf(ColumnOf(df, "days_since_start")) + 1,
     platforms_count |-> Cardinality(Members(ColumnOf(df, "platform"))),
     creative_count |-> Cardinality(Members(ColumnOf(df, "creative_id")))]

\* (a method that takes the first row out of the data it has read)
OverallKpisConsumingARow(self) ==
    Returns([self EXCEPT !.data.rows = Tail(@)], OverallKpis(self.data.rows))

calculate_overall_kpis(self) == Returns(self, OverallKpis(self.data.rows))

\* lines 70-84
PlatformKpis(platform_data, df) ==
    [impressions |-> SumOf(ColumnOf(platform_data, "impressions")),
     reach |-> SumOf(ColumnOf(platform_data, "reach")),
     clicks |-> SumOf(ColumnOf(platform_data, "clicks")),
     spend |-> Round2(Money(SumOf(ColumnOf(platform_data, "spend")))),
     engagements |-> SumOf(ColumnOf(platform_data, "engagements")),
     video_views |-> SumOf(ColumnOf(platform_data, "video_views")),
     avg_cpm |-> MeanRounded(ColumnOf(platform_data, "cpm"), 100),
     avg_ctr |-> MeanRounded(ColumnOf(platform_data, "ctr"), 100),
     avg_engagement_rate |-> MeanRounded(ColumnOf(platform_data, "engagement_rate"), 100),
     frequency |-> Divided2(SumOf(ColumnOf(platform_data, "impressions")), 1,
                            SumOf(ColumnOf(platform_data, "reach"))),
     cost_per_click |-> IF SumOf(ColumnOf(platform_data, "clicks")) > 0
                        THEN Divided2(SumOf(ColumnOf(platform_data, "spend")), 10000,
                                      SumOf(ColumnOf(platform_data, "clicks")))
                        ELSE 0,
     spend_percentage |-> Percent2(SumOf(ColumnOf(platform_data, "spend")),
                                   SumOf(ColumnOf(df, "spend"))),
     impression_share |-> Percent2(SumOf(ColumnOf(platform_data, "impressions")),
                                   SumOf(ColumnOf(df, "impressions")))]

analyze_by_platform(self) ==
    Returns(self, [platform \in Members(ColumnOf(self.data.rows, "platform")) |->
                      PlatformKpis(RowsOf(self.data.rows, "platform", platform),
                                   self.data.rows)])

\* (a week whose avg_ctr is the clicks of the week over its impressions)
WeekTotalsPooled(week, week_data) ==
    [week_number |-> week,
     impressions |-> SumOf(ColumnOf(week_data, "impressions")),
     clicks |-> SumOf(ColumnOf(week_data, "clicks")),
     spend |-> Round2(Money(SumOf(ColumnOf(week_data, "spend")))),
     avg_cpm |-> MeanRounded(ColumnOf(week_data, "cpm"), 100),
     avg_ctr |-> IF SumOf(ColumnOf(week_data, "impressions")) = 0 THEN NaN
                 ELSE 1000 * PyRound(Rat(1000 * SumOf(ColumnOf(week_data, "clicks")),
                                         SumOf(ColumnOf(week_data, "impressions")))),
     avg_engagement_rate |-> MeanRounded(ColumnOf(week_data, "engagement_rate"), 100),
     days_with_data |-> Cardinality(Members(ColumnOf(week_data, "date")))]

\* f'week_{week}', and int(k.split('_')[1]) of it
WeekKey(week) == <<"week", week>>

WeekOfKey(key) == key[2]

\* lines 99-108
WeekTotals(week, week_data) ==
    [week_number |-> week,
     impressions |-> SumOf(ColumnOf(week_data, "impressions")),
     clicks |-> SumOf(ColumnOf(week_data, "clicks")),
     spend |-> Round2(Money(SumOf(ColumnOf(week_data, "spend")))),
     avg_cpm |-> MeanRounded(ColumnOf(week_data, "cpm"), 100),
     avg_ctr |-> MeanRounded(ColumnOf(week_data, "ctr"), 1000),
     avg_engagement_rate |-> MeanRounded(ColumnOf(week_data, "engagement_rate"), 100),
     days_with_data |-> Cardinality(Members(ColumnOf(week_data, "date")))]

\* round(((current - previous) / previous) * 100, 2) if previous > 0 else 0
ChangePct(current, previous) ==
    IF previous = Inf THEN NaN
    ELSE IF ~(previous > 0) THEN 0
    ELSE IF current < 0 THEN NaN
    ELSE Round2(Rat(100 * (current - previous), previous))

WithChanges(entry, previous) ==
    Extended(entry, [ctr_change_pct |-> ChangePct(entry.avg_ctr, previous.avg_ctr),
                     cpm_change_pct |-> ChangePct(entry.avg_cpm, previous.avg_cpm)])

\* (changes measured against the week numbered one less, when it is there)
WeekChangesByNumber(totals, weeks) ==
    [key \in DOMAIN totals |->
        IF WeekKey(WeekOfKey(key) - 1) \notin DOMAIN totals THEN totals[key]
        ELSE WithChanges(totals[key], totals[WeekKey(WeekOfKey(key) - 1)])]

\* lines 110-125: weeks is sorted, and weeks[i] is measured against weeks[i-1]
WeekChanges(totals, weeks) ==
    [key \in DOMAIN totals |->
        IF PlaceIn(weeks, WeekOfKey(key)) = 1 THEN totals[key]
        ELSE WithChanges(totals[key],
                         totals[WeekKey(weeks[PlaceIn(weeks, WeekOfKey(key)) - 1])])]

\* sorted(...) of a set of numbers
Sorted(set) ==
    AsSeq([k \in 1..Cardinality(set) |->
        CHOOSE v \in set : Cardinality({u \in set : u < v}) = k - 1])

WeeklyAnalysis(totals) ==
    WeekChanges(totals, Sorted({WeekOfKey(key) : key \in DOMAIN totals}))

anlyze_by_week(self) ==
    Returns(self,
        WeeklyAnalysis([key \in {WeekKey(w) : w \in Members(ColumnOf(self.data.rows, "week_number"))} |->
            WeekTotals(WeekOfKey(key), RowsOf(self.data.rows, "week_number", WeekOfKey(key)))]))

\* lines 142-151
CreativeTotals(creative_data) ==
    [platform |-> creative_data[1].platform,
     impressions |-> SumOf(ColumnOf(creative_data, "impressions")),
     clicks |-> SumOf(ColumnOf(creative_data, "clicks")),
     spend |-> Round2(Money(SumOf(ColumnOf(creative_data, "spend")))),
     avg_ctr |-> MeanRounded(ColumnOf(creative_data, "ctr"), 100),
     avg_cpm |-> MeanRounded(ColumnOf(creative_data, "cpm"), 100),
     avg_engagement_rate |-> MeanRounded(ColumnOf(creative_data, "engagement_rate"), 100),
     days_active |-> Cardinality(Members(ColumnOf(creative_data, "date")))]

\* (a ranking that puts the smallest avg_ctr first)
RankAscending(totals, keys, k) ==
    1 + Cardinality({j \in 1..Len(keys) :
            /\ totals[keys[j]].platform = totals[keys[k]].platform
            /\ \/ totals[keys[j]].avg_ctr < totals[keys[k]].avg_ctr
               \/ totals[keys[j]].avg_ctr = totals[keys[k]].avg_ctr /\ j < k})

\* lines 153-167: the place of creative keys[k] among the creatives of its
\* platform, in the order sorted(..., reverse=True) gives them: a stable
\* sort, so that equal keys stay in the order the dictionary has them
Rank(totals, keys, k) ==
    1 + Cardinality({j \in 1..Len(keys) :
            /\ totals[keys[j]].platform = totals[keys[k]].platform
            /\ \/ totals[keys[j]].avg_ctr > totals[keys[k]].avg_ctr
               \/ totals[keys[j]].avg_ctr = totals[keys[k]].avg_ctr /\ j < k})

\* A dictionary whose order matters: its keys as inserted, and its values
CreativeAnalysis(totals, keys) ==
    [keys |-> keys,
     at |-> [creative \in Members(keys) |->
                Extended(totals[creative],
                         [rank_by_ctr |-> Rank(totals, keys, PlaceIn(keys, creative))])]]

analyze_by_creative(self) ==
    Returns(self,
        CreativeAnalysis([creative \in Members(ColumnOf(self.data.rows, "creative_id")) |->
                             CreativeTotals(RowsOf(self.data.rows, "creative_id", creative))],
                         Unique(ColumnOf(self.data.rows, "creative_id"))))

\* lines 181-203: every value of the aggregate is a float, rounded to 4
PeriodTotals(period) ==
    [ctr |-> MeanRounded(ColumnOf(period, "ctr"), 100),
     cpm |-> MeanRounded(ColumnOf(period, "cpm"), 1),
     engagement_rate |-> MeanRounded(ColumnOf(period, "engagement_rate"), 100),
     impressions |-> SumOf(ColumnOf(period, "impressions")),
     clicks |-> SumOf(ColumnOf(period, "clicks"))]

\* lines 223-227
Lift(weekend, weekday) ==
    IF weekend < 0 \/ weekday < 0 THEN NaN
    ELSE Round2(Rat(100 * (weekend - weekday), weekday))

\* lines 222-227: the lift is set if weekday_avg_ctr > 0, and only then
WithLift(pattern) ==
    IF pattern.weekday_avg_ctr > 0 \/ pattern.weekday_avg_ctr = Inf
    THEN Extended(pattern,
             [weekend_ctr_lift |-> Lift(pattern.weekend_avg_ctr, pattern.weekday_avg_ctr)])
    ELSE pattern

\* lines 210-219
PlatformPattern(weekday, weekend) ==
    [weekday_avg_ctr |-> MeanRounded(ColumnOf(weekday, "ctr"), 100),
     weekend_avg_ctr |-> MeanRounded(ColumnOf(weekend, "ctr"), 100),
     weekday_avg_engagement |-> MeanRounded(ColumnOf(weekday, "engagement_rate"), 100),
     weekend_avg_engagement |-> MeanRounded(ColumnOf(weekend, "engagement_rate"), 100)]

DayAnalysis(df) ==
    [weekday_vs_weekend |->
        [weekday |-> PeriodTotals(RowsOf(df, "is_weekend", FALSE)),
         weekend |-> PeriodTotals(RowsOf(df, "is_weekend", TRUE))],
     by_platform |->
        [platform \in Members(ColumnOf(df, "platform")) |->
            WithLift(PlatformPattern(
                RowsOf(RowsOf(df, "platform", platform), "is_weekend", FALSE),
                RowsOf(RowsOf(df, "platform", platform), "is_weekend", TRUE)))]]

analyze_day_of_week_patterns(self) == Returns(self, DayAnalysis(self.data.rows))

\* df.groupby('date').agg({metric: 'sum'}): one sum a date, dates ascending
DailySums(df, dates, metric) ==
    AsSeq([k \in 1..Len(dates) |-> SumOf(ColumnOf(RowsOf(df, "date", dates[k]), metric))])

\* The sum of (n x - total)^2 over the daily values x
SquaresAbout(values, n, total) ==
    BigSumSeq(AsSeq([j \in 1..n |-> BigSquare(n * values[j] - total)]), 1)

\* The days k with n value - total > 0 and
\* (n value - total)^2 (n - 1) > factor * squares
AboveBy(values, n, total, factor, squares) ==
    SelectSeq(AsSeq([k \in 1..n |-> k]),
        LAMBDA k : /\ n > 1
                   /\ n * values[k] - total > 0
                   /\ BigLess(BigTimes(squares, factor, 0),
                              BigTimes(BigSquare(n * values[k] - total), n - 1, 0)))

\* (days more than one standard deviation above the mean)
AboveOneStd(values, n, total) ==
    AboveBy(values, n, total, 1, SquaresAbout(values, n, total))

\* lines 258-263: the days with value > mean + 2 * std, std the sample
\* standard deviation of the n daily values (nan for one day, and then no
\* day is above).  With mean = total / n and std^2 = sum((x - mean)^2) / (n - 1),
\* value - mean > 2 std is n value - total > 0 and
\* (n value - total)^2 (n - 1) > 4 sum((n x - total)^2).
AboveThreshold(values, n, total) ==
    AboveBy(values, n, total, 4, SquaresAbout(values, n, total))

\* lines 266-272
HighDays(dates, metric, values, high) ==
    AsSeq([k \in 1..Len(high) |->
        [date |-> FormatDate(dates[high[k]]),
         metric |-> metric,
         value |-> values[high[k]],
         times_above_average |-> Round2(Rat(values[high[k]] * Len(values), SumSeq(values)))]])

HighDaysOf(dates, metric, values) ==
    HighDays(dates, metric, values, AboveThreshold(values, Len(values), SumSeq(values)))

HighPerformanceDays(df, dates) ==
    HighDaysOf(dates, "impressions", DailySums(df, dates, "impressions"))
    \o HighDaysOf(dates, "clicks", DailySums(df, dates, "clicks"))

\* (a list of low days that is filled as the list of high days is)
AnomaliesWithLowDays(high) ==
    [high_performance_days |-> high,
     low_performance_days |-> high,
     summary |-> [total_high_performance_days |-> Len(high),
                  total_low_performance_days |-> Len(high)]]

\* lines 242-246 and 274-277: nothing is appended to low_performance_days
Anomalies(high) ==
    [high_performance_days |-> high,
     low_performance_days |-> <<>>,
     summary |-> [total_high_performance_days |-> Len(high),
                  total_low_performance_days |-> Len(<<>>)]]

detect_anomalies(self) ==
    Returns(self, Anomalies(HighPerformanceDays(self.data.rows,
                                Ascending(Unique(ColumnOf(self.data.rows, "date"))))))

\* One entry of the dictionary run() builds: the method called on the agent
\* as the methods before it left it
Analysed(so_far, key, call) ==
    [self |-> call.self,
     values |-> Extended(so_far.values, [k \in {key} |-> call.value])]

OverallAnalysed(self) ==
    Analysed([self |-> self, values |-> EmptyDict], "overall_kpis",
             calculate_overall_kpis(self))

PlatformsAnalysed(so_far) ==
    Analysed(so_far, "platform_analysis", analyze_by_platform(so_far.self))

WeeksAnalysed(so_far) == Analysed(so_far, "weekly_analysis", anlyze_by_week(so_far.self))

CreativesAnalysed(so_far) ==
    Analysed(so_far, "creative_analysis", analyze_by_creative(so_far.self))

DaysAnalysed(so_far) ==
    Analysed(so_far, "day_of_week_analysis", analyze_day_of_week_patterns(so_far.self))

AnomaliesAnalysed(so_far) == Analysed(so_far, "anomalies", detect_anomalies(so_far.self))

\* lines 289-303, with now the reading of the clock
Timestamped(done, now) ==
    Returns(Extended(done.self,
                [analysis_results |-> Extended(done.values, [analysis_timestamp |-> now])]),
            Extended(done.values, [analysis_timestamp |-> now]))

\* PerformanceAnalyzerAgent.run up to the reading of the clock: the six
\* methods in the order of lines 290-295
PerformanceAnalyzerAgent_run(self) ==
    AnomaliesAnalysed(DaysAnalysed(CreativesAnalysed(WeeksAnalysed(
        PlatformsAnalysed(OverallAnalysed(self))))))

\* json.dump(obj, f, indent=2) into the file opened for writing at the
\* default output_path
json_dump(obj) ==
    [path |-> "data/processed/performance_analysis.json", indent |-> 2, document |-> obj]

\* self.analysis_results of an object on which no assignment has made the
\* attribute
NoAttribute(name) ==
    "AttributeError: 'PerformanceAnalyzerAgent' object has no attribute '" \o name \o "'"

\* save_analysis, lines 305-313: what it raises and what it writes.
\* __init__ makes the attribute analysis_result, run makes analysis_results.
save_analysis(self) ==
    IF "analysis_results" \notin DOMAIN self
    THEN [self |-> self, error |-> NoAttribute("analysis_results"), written |-> None]
    ELSE IF self.analysis_results = EmptyDict
    THEN [self |-> self, error |-> "No analysis results to save. Run analysis first.",
          written |-> None]
    ELSE [self |-> self, error |-> NoError, written |-> json_dump(self.analysis_results)]

\* ------------------------------------------------------------------ state

VARIABLES
    config,      \* the content of config.yaml
    np_random,   \* numpy's global generator (np.random)
    py_random,   \* Python's global generator (random)
    generators,  \* the CampaignDataGenerator objects of the process
    seeded_by,   \* the generator whose __init__ seeded the streams last, with
                 \* no draw taken since; 0 if there is none
    last_call,   \* what the latest generate_campaign_data call computed
    file,        \* the CSV file at data_path
    agent,       \* the DataIngestionAgent object
    outcome,     \* the latest call on the agent: the method, the agent before
                 \* it, the exception or the value it ended with, and the
                 \* stages it went through
    analyzer,    \* the PerformanceAnalyzerAgent object
    analysis     \* the latest call on the analyzer: the method, the analyzer
                 \* before it and the value returned

vars == <<config, np_random, py_random, generators, seeded_by, last_call, file, agent,
          outcome, analyzer, analysis>>

simulator == <<config, np_random, py_random, generators, seeded_by, last_call>>

ingestion == <<file, agent, outcome>>

analyzing == <<analyzer, analysis>>

GeneratorIds == {1, 2}

NotConstructed == [constructed |-> FALSE]

NoCall == [generator |-> 0]

NoOutcome == [op |-> "", before |-> NewAgent, error |-> NoError, value |-> None,
              trace |-> <<>>, source |-> MissingFile]

NoAnalysis == [op |-> "", before |-> NotConstructed, value |-> None]

\* Both streams start in a state of their own; what seed(42) leads to and
\* how a draw moves the state is fixed by the library.
InitStreams ==
    /\ np_random \in {r \in Streams(DrawLevels) : r.state = 0}
    /\ py_random \in {r \in Streams(2) : r.state = 0}

InitGen ==
    /\ config \in CampaignConfigs
    /\ InitStreams
    /\ generators = [g \in GeneratorIds |-> NotConstructed]
    /\ seeded_by = 0
    /\ last_call = NoCall
    /\ file = MissingFile
    /\ agent = NewAgent
    /\ outcome = NoOutcome
    /\ analyzer = NotConstructed
    /\ analysis = NoAnalysis

\* (a constructor that does not seed numpy's stream)
NumpyNotSeeded(rng) == rng

\* np.random.seed(42); random.seed(42)
SeedNumpy(rng) == Seed(rng)

SeedPython(rng) == Seed(rng)

\* CampaignDataGenerator(config_path): the seeding comes first, then the
\* lookups, which raise KeyError on a key the file does not have
Construct(g) ==
    /\ ~generators[g].constructed
    /\ \A h \in GeneratorIds : h < g => generators[h].constructed
    /\ np_random' = SeedNumpy(np_random)
    /\ py_random' = SeedPython(py_random)
    /\ IF MissingOfInit(config) = ""
       THEN /\ generators' = [generators EXCEPT ![g] =
                    [constructed |-> TRUE, self |-> NewGenerator(config), calls |-> 0,
                     independent |-> FALSE, df |-> <<>>]]
            /\ seeded_by' = g
       ELSE /\ generators' = [generators EXCEPT ![g] =
                    [constructed |-> FALSE,
                     raised |-> [error |-> "KeyError", key |-> MissingOfInit(config),
                                 generated |-> 0, draws |-> 0]]]
            /\ seeded_by' = seeded_by
    /\ UNCHANGED <<config, last_call, ingestion, analyzing>>

\* generator.generate_campaign_data()
Generate(g) ==
    /\ generators[g].constructed
    /\ generators[g].calls = 0
    /\ IF Incomplete(generators[g].self) = {}
       THEN \E result \in {generate_campaign_data(generators[g].self, np_random, py_random)} :
               /\ np_random' = result.np
               /\ py_random' = result.py
               /\ generators' = [generators EXCEPT ![g].df = result.df,
                                                   ![g].calls = 1,
                                                   ![g].independent = (seeded_by = g)]
               /\ last_call' = [generator |-> g, raw |-> result.raw, df |-> result.df,
                                before_outlier |-> result.before_outlier,
                                corrupted |-> result.corrupted,
                                outlier_idx |-> result.outlier_idx]
       ELSE \E raised \in {RaisedInLoop(generators[g].self,
                                         FirstIncomplete(generators[g].self), np_random)} :
               /\ np_random' = raised.np
               /\ py_random' = py_random
               /\ generators' = [generators EXCEPT ![g] =
                       Extended([@ EXCEPT !.calls = 1],
                                [raised |-> [error |-> raised.error, key |-> raised.key,
                                             generated |-> raised.generated,
                                             draws |-> raised.draws]])]
               /\ last_call' = last_call
    /\ seeded_by' = 0
    /\ UNCHANGED <<config, ingestion, analyzing>>

NextGen == \E g \in GeneratorIds : Construct(g) \/ Generate(g)

SpecGen == InitGen /\ [][NextGen]_vars

\* The generator on a config.yaml that may lack a key
InitConfig ==
    /\ config \in {CampaignConfig(MaxDays, <<3, 2, 2>>, FALSE)}
                   \cup IncompleteConfigs(CampaignConfig(MaxDays, <<3, 2, 2>>, FALSE))
    /\ np_random \in {r \in Streams(DrawLevels) : r.state = 0 /\ r.inc = 1}
    /\ py_random \in {r \in Streams(2) : r.state = 0 /\ r.inc = 1}
    /\ generators = [g \in GeneratorIds |-> NotConstructed]
    /\ seeded_by = 0
    /\ last_call = NoCall
    /\ file = MissingFile
    /\ agent = NewAgent
    /\ outcome = NoOutcome
    /\ analyzer = NotConstructed
    /\ analysis = NoAnalysis

SpecConfig == InitConfig /\ [][NextGen]_vars

\* ------------------------------------------------- the ingestion pipeline
\* generate_data.py writes the file the agent reads; until it has, the file
\* is missing or has nothing in it.

InitIngest ==
    /\ config \in SmallConfigs
    /\ np_random \in {r \in Streams(DrawLevels) : r.state = 0 /\ r.inc = 1}
    /\ py_random \in {r \in Streams(2) : r.state = 0}
    /\ generators = [g \in GeneratorIds |-> NotConstructed]
    /\ seeded_by = 0
    /\ last_call = NoCall
    /\ file \in {MissingFile, EmptyFile}
    /\ agent = NewAgent
    /\ outcome = NoOutcome
    /\ analyzer = NotConstructed
    /\ analysis = NoAnalysis

\* generator.save_to_csv(df)
SaveToCsv(g) ==
    /\ generators[g].constructed
    /\ generators[g].calls = 1
    /\ file' = to_csv(generators[g].df)
    /\ file' # file
    /\ UNCHANGED <<simulator, agent, outcome, analyzing>>

\* One call of a method on the agent
Call(op, call) ==
    /\ agent' = call.self
    /\ outcome' = [op |-> op, before |-> agent, error |-> call.error, value |-> call.value,
                   trace |-> <<op>>, source |-> file]
    /\ UNCHANGED <<simulator, file, analyzing>>

LoadData == \E call \in {load_data(agent, file)} : Call("load_data", call)

ValidateDataQuality ==
    \E call \in {validate_data_quality(agent)} : Call("validate_data_quality", call)

AddDerivedFeatures ==
    \E call \in {add_derived_features(agent)} : Call("add_derived_features", call)

NormalizePlatforms ==
    \E call \in {normalize_platforms(agent)} : Call("normalize_platforms", call)

GetSummaryStatistics ==
    \E call \in {get_summary_statistics(agent)} : Call("get_summary_statistics", call)

Run ==
    \E call \in {run(agent, file)} :
        /\ agent' = call.self
        /\ outcome' = [op |-> "run", before |-> agent, error |-> call.error,
                       value |-> call.value, trace |-> call.trace, source |-> file]
        /\ UNCHANGED <<simulator, file, analyzing>>

NextIngest ==
    \/ Construct(1)
    \/ Generate(1)
    \/ SaveToCsv(1)
    \/ LoadData
    \/ ValidateDataQuality
    \/ AddDerivedFeatures
    \/ NormalizePlatforms
    \/ GetSummaryStatistics
    \/ Run

SpecIngest == InitIngest /\ [][NextIngest]_vars

\* ------------------------------------------------- the analysis pipeline
\* run_campaigniq.py: the file generate_data.py has written, or another
\* file of its columns, is there; the ingestion agent runs on it and the
\* analyzer is constructed with the processed data the agent returns.

\* generate_data.py: the file a generator constructed in its own process
\* writes
GeneratedFile(c, np, py) ==
    to_csv(generate_campaign_data(NewGenerator(c), SeedNumpy(np), SeedPython(py)).df)

\* What the agent and the analyzer do with a file depends on the file alone:
\* the files no generator wrote are read under one configuration and one
\* seeding only.
OtherFiles(c, np, py) ==
    IF c = CampaignConfig(MaxDays, <<3, 2, 2>>, FALSE) /\ np.seed42 = 0 /\ py.seed42 = 0
    THEN {OutlierSample, GappedWeeks, NothingDelivered, EvenRates} ELSE {}

InitAnalyze ==
    /\ config \in {c \in SmallConfigs : c.campaign.duration_days = MaxDays}
    /\ np_random \in {r \in Streams(DrawLevels) : r.state = 0 /\ r.inc = 1}
    /\ py_random \in {r \in Streams(2) : r.state = 0 /\ r.inc = 1}
    /\ generators = [g \in GeneratorIds |-> NotConstructed]
    /\ seeded_by = 0
    /\ last_call = NoCall
    /\ file \in {GeneratedFile(config, np_random, py_random)}
                \cup OtherFiles(config, np_random, py_random)
    /\ agent = NewAgent
    /\ outcome = NoOutcome
    /\ analyzer = NotConstructed
    /\ analysis = NoAnalysis

\* ingestion_agent.run(), before there is an analyzer
Ingest == ~analyzer.constructed /\ Run

\* PerformanceAnalyzerAgent(processed_data=processed_data)
ConstructAnalyzer ==
    /\ ~analyzer.constructed
    /\ outcome.op = "run" /\ outcome.error = NoError
    /\ analyzer' = [constructed |-> TRUE, self |-> NewAnalyzer(outcome.value[1])]
    /\ UNCHANGED <<simulator, ingestion, analysis>>

\* One call of a method on the analyzer
Analyse(op, call) ==
    /\ analyzer' = [analyzer EXCEPT !.self = call.self]
    /\ analysis' = [op |-> op, before |-> analyzer, value |-> call.value]
    /\ UNCHANGED <<simulator, ingestion>>

CalculateOverallKpis ==
    /\ analyzer.constructed
    /\ \E call \in {calculate_overall_kpis(analyzer.self)} : Analyse("calculate_overall_kpis", call)

AnalyzeByPlatform ==
    /\ analyzer.constructed
    /\ \E call \in {analyze_by_platform(analyzer.self)} : Analyse("analyze_by_platform", call)

AnlyzeByWeek ==
    /\ analyzer.constructed
    /\ \E call \in {anlyze_by_week(analyzer.self)} : Analyse("anlyze_by_week", call)

AnalyzeByCreative ==
    /\ analyzer.constructed
    /\ \E call \in {analyze_by_creative(analyzer.self)} : Analyse("analyze_by_creative", call)

AnalyzeDayOfWeekPatterns ==
    /\ analyzer.constructed
    /\ \E call \in {analyze_day_of_week_patterns(analyzer.self)} :
           Analyse("analyze_day_of_week_patterns", call)

DetectAnomalies ==
    /\ analyzer.constructed
    /\ \E call \in {detect_anomalies(analyzer.self)} : Analyse("detect_anomalies", call)

\* analyzer_agent.run() at one of the readings of the clock
AnalyzerRun ==
    /\ analyzer.constructed
    /\ \E done \in {PerformanceAnalyzerAgent_run(analyzer.self)} :
       \E now \in 1..ClockReadings :
       \E call \in {Timestamped(done, now)} : Analyse("run", call)

\* analyzer_agent.save_analysis()
SaveAnalysis ==
    /\ analyzer.constructed
    /\ \E call \in {save_analysis(analyzer.self)} :
           /\ analyzer' = [analyzer EXCEPT !.self = call.self]
           /\ analysis' = [op |-> "save_analysis", before |-> analyzer, value |-> None,
                           error |-> call.error, written |-> call.written]
    /\ UNCHANGED <<simulator, ingestion>>

NextAnalyze ==
    \/ Ingest
    \/ ConstructAnalyzer
    \/ CalculateOverallKpis
    \/ AnalyzeByPlatform
    \/ AnlyzeByWeek
    \/ AnalyzeByCreative
    \/ AnalyzeDayOfWeekPatterns
    \/ DetectAnomalies
    \/ AnalyzerRun
    \/ SaveAnalysis

SpecAnalyze == InitAnalyze /\ [][NextAnalyze]_vars

\* ------------------------------------------------------ from end to end
\* run_campaigniq.py on the four-week campaign and on the single-creative
\* campaign, whatever the streams give: the generated file is ingested and
\* its weeks are analysed.

InitEndToEnd ==
    /\ config \in {FourWeekConfig, SingleCreativeConfig}
    /\ InitStreams
    /\ generators = [g \in GeneratorIds |-> NotConstructed]
    /\ seeded_by = 0
    /\ last_call = NoCall
    /\ file = GeneratedFile(config, np_random, py_random)
    /\ agent = NewAgent
    /\ outcome = NoOutcome
    /\ analyzer = NotConstructed
    /\ analysis = NoAnalysis

NextEndToEnd ==
    \/ Ingest
    \/ ConstructAnalyzer
    \/ AnlyzeByWeek

SpecEndToEnd == InitEndToEnd /\ [][NextEndToEnd]_vars

\* ------------------------------------------------- claims on the simulator

Called == last_call.generator # 0

RowCount(df, Test(_)) == Cardinality({i \in 1..Len(df) : Test(df[i])})

\* C5.  Determinism: two independent runs, each constructing its own
\* generator and generating from the streams as its constructor seeded
\* them, return identical frames: the same records in the same order, field
\* for field, the dropped and the inflated records included.
C5_Determinism ==
    \A g, h \in GeneratorIds :
        (/\ generators[g].constructed /\ generators[g].calls = 1 /\ generators[g].independent
         /\ generators[h].constructed /\ generators[h].calls = 1 /\ generators[h].independent)
        => generators[g].df = generators[h].df

C5_Witness ==
    /\ \A g \in GeneratorIds :
          generators[g].constructed /\ generators[g].calls = 1 /\ generators[g].independent
    /\ np_random.inc # 0
    /\ Len(generators[1].df) > 0

\* C6.  Before the injector the simulator holds exactly one record for every
\* (platform, creative ordinal 1..num_creatives, day 0..duration_days-1) and
\* no other record: duration_days times the sum of num_creatives records,
\* 196 for the four-week campaign with creative counts [3, 2, 2].
C6_OneRecordPerTriple ==
    Called =>
        /\ Len(last_call.raw) =
              config.campaign.duration_days
              * (config.platforms["google_display"].num_creatives
                 + config.platforms["meta"].num_creatives
                 + config.platforms["tiktok"].num_creatives)
        /\ \A k \in 1..Len(platforms) :
           \A c \in 1..config.platforms[platforms[k]].num_creatives :
           \A day \in 0..(config.campaign.duration_days - 1) :
              RowCount(last_call.raw,
                  LAMBDA r : /\ r.platform = platforms[k]
                             /\ r.creative_id = <<platforms[k], "creative", c>>
                             /\ ParseDate(r.date) = ParseDate(config.campaign.start_date) + day)
              = 1
        /\ (config = FourWeekConfig => Len(last_call.raw) = 196)

C6_Witness == Called /\ config = FourWeekConfig /\ Len(last_call.raw) = 196

Conserved(r) ==
    /\ r.reach <= r.impressions
    /\ r.clicks <= r.impressions
    /\ r.impressions >= 0 /\ r.reach >= 0 /\ r.clicks >= 0
    /\ r.engagements >= 0 /\ r.video_views >= 0
    /\ r.spend >= 0

\* C7.  Conservation: every record the simulator produces and every record
\* the injector leaves, the inflated one included, has reach <= impressions,
\* clicks <= impressions, all counts >= 0 and spend >= 0.
C7_Conservation ==
    Called =>
        /\ \A i \in 1..Len(last_call.raw) : Conserved(last_call.raw[i])
        /\ \A i \in 1..Len(last_call.df) : Conserved(last_call.df[i])

OfPlatform(df, p) == RowCount(df, LAMBDA r : r.platform = p)

\* C8.  The injector removes, from each platform with more than 5 records,
\* exactly 1 or 2 records of that platform, removes none of a platform with
\* 5 or fewer, and adds none: the records left are records it was given.
C8_Removals ==
    Called =>
        /\ \A k \in 1..Len(platforms) :
              LET had == OfPlatform(last_call.raw, platforms[k])
                  has == OfPlatform(last_call.before_outlier, platforms[k])
              IN  IF had > 5 THEN had - has \in {1, 2} ELSE had = has
        /\ \A i \in 1..Len(last_call.before_outlier) :
              RowCount(last_call.raw, LAMBDA r : r = last_call.before_outlier[i]) = 1
        /\ \A i, j \in 1..Len(last_call.before_outlier) :
              last_call.before_outlier[i] = last_call.before_outlier[j] => i = j
        /\ Len(last_call.df) = Len(last_call.before_outlier)

C8_Witness ==
    /\ Called
    /\ OfPlatform(last_call.raw, "google_display") = 6
    /\ OfPlatform(last_call.before_outlier, "google_display") = 4
    /\ OfPlatform(last_call.raw, "meta") = 4
    /\ OfPlatform(last_call.before_outlier, "meta") = 4

ScaledColumns == {"impressions", "reach", "clicks", "engagements", "video_views"}

\* Some one factor m in [2, 3] has new[f] = int(old[f] * m) for every scaled
\* column f: the intervals [new/old, (new + 1)/old) and [2, 3] meet.
CommonFactor(old, new) ==
    /\ \A f \in ScaledColumns :
          /\ old[f] = 0 => new[f] = 0
          /\ new[f] <= 3 * old[f]
          /\ old[f] > 0 => 2 * old[f] < new[f] + 1
    /\ \A f, g \in ScaledColumns :
          (old[f] > 0 /\ old[g] > 0) => new[f] * old[g] < (new[g] + 1) * old[f]

\* C9.  After the removals the injector changes exactly one of the records
\* left: its impressions, reach, clicks, engagements and video_views are
\* each int(old * m) for one factor m in [2, 3], its cpm and ctr are
\* recomputed from its spend and its new clicks and impressions, its spend,
\* date, platform and creative_id stay; every other record stays as it was.
C9_OneOutlier ==
    Called =>
        LET old == last_call.before_outlier
            new == last_call.corrupted
        IN  /\ Len(new) = Len(old)
            /\ Cardinality({i \in 1..Len(old) : new[i] # old[i]}) = 1
            /\ \A i \in 1..Len(old) :
                  new[i] # old[i] =>
                     /\ CommonFactor(old[i], new[i])
                     /\ new[i].impressions > 0
                     /\ new[i].cpm = Round2(Rat(new[i].spend, 10 * new[i].impressions))
                     /\ new[i].ctr = Round4(Rat(new[i].clicks, new[i].impressions))
                     /\ \A f \in DOMAIN old[i] \ (ScaledColumns \cup {"cpm", "ctr"}) :
                           new[i][f] = old[i][f]

C9_Witness ==
    /\ Called
    /\ \E i \in 1..Len(last_call.corrupted) :
          /\ last_call.corrupted[i].impressions > 2 * last_call.before_outlier[i].impressions
          /\ last_call.corrupted[i].clicks > last_call.before_outlier[i].clicks
          /\ last_call.corrupted[i].spend = last_call.before_outlier[i].spend
          /\ last_call.corrupted[i].cpm < last_call.before_outlier[i].cpm

\* The spend of platform p in df, in 1/10000 dollar
SpendIn(df, p) ==
    SumSeq(AsSeq([i \in 1..Len(df) |-> IF df[i].platform = p THEN df[i].spend ELSE 0]))

\* C19 as stated.  Before the injector, the spend of every platform, summed
\* over its creatives and days, lies within total_budget * budget_percentage
\* * [0.95, 1.05].
C19_BudgetShape ==
    Called =>
        \A k \in 1..Len(platforms) :
            LET share == config.platforms[platforms[k]].budget_percentage
                spend == SpendIn(last_call.raw, platforms[k])
            IN  /\ spend * share.d >= 9500 * config.campaign.total_budget * share.n
                /\ spend * share.d <= 10500 * config.campaign.total_budget * share.n

\* C19 amended.  Before the injector, the spend of every platform lies
\* within total_budget * budget_percentage * [0.95, 1.05] widened by half a
\* cent for each record of the platform: every record's spend is its planned
\* budget times a draw of [0.95, 1.05), rounded to the cent.
C19_BudgetShapeRounded ==
    Called =>
        \A k \in 1..Len(platforms) :
            LET share == config.platforms[platforms[k]].budget_percentage
                spend == SpendIn(last_call.raw, platforms[k])
                records == OfPlatform(last_call.raw, platforms[k])
            IN  /\ (spend + 50 * records) * share.d
                      >= 9500 * config.campaign.total_budget * share.n
                /\ (spend - 50 * records) * share.d
                      <= 10500 * config.campaign.total_budget * share.n

\* A platform whose spend is below the band by the rounding alone, and one
\* whose spend is above its planned budget
C19_Witness ==
    /\ Called
    /\ \E k \in 1..Len(platforms) :
          SpendIn(last_call.raw, platforms[k]) * config.platforms[platforms[k]].budget_percentage.d
             < 9500 * config.campaign.total_budget * config.platforms[platforms[k]].budget_percentage.n
    /\ Len(last_call.raw) > 7

Before(a, b) ==
    \/ ParseDate(a.date) < ParseDate(b.date)
    \/ /\ a.date = b.date
       /\ \/ PlatformOrder(a.platform) < PlatformOrder(b.platform)
          \/ a.platform = b.platform /\ a.creative_id[3] < b.creative_id[3]

\* C20.  The frame generate_campaign_data returns holds the records the
\* injector left, the inflated one included, in ascending order of (date,
\* platform, creative_id).
C20_SortedOutput ==
    Called =>
        /\ \A i \in 1..(Len(last_call.df) - 1) : Before(last_call.df[i], last_call.df[i + 1])
        /\ Len(last_call.df) = Len(last_call.corrupted)
        /\ \A i \in 1..Len(last_call.corrupted) :
              RowCount(last_call.df, LAMBDA r : r = last_call.corrupted[i]) = 1

C20_Witness ==
    /\ Called
    /\ last_call.df # last_call.corrupted
    /\ Len(last_call.df) < Len(last_call.raw)
    /\ \E i \in 1..Len(last_call.df) : RowCount(last_call.raw, LAMBDA r : r = last_call.df[i]) = 0

\* The generator of the latest call generated from the streams as its own
\* constructor seeded them
CalledSeeded == Called /\ generators[last_call.generator].independent

WeekOfRecord(self, row) == _get_date_features(self, ParseDate(row.date)).week_number

\* The draws of the fatigue step of a record
FatigueDrawsOf(self, row) == IF WeekOfRecord(self, row) > 3 THEN 2 ELSE 0

\* The place in the stream at which the draws of each record start, and
\* after them the place at which the draws of the injector start: a record
\* of weeks 1 to 3 takes 6 draws and a later one 8
RECURSIVE DrawsFrom(_, _, _, _)
DrawsFrom(self, raw, i, at) ==
    IF i > Len(raw) THEN <<at>>
    ELSE <<at>> \o DrawsFrom(self, raw, i + 1, at + 6 + FatigueDrawsOf(self, raw[i]))

\* a comes before b in the nested loops: platform, then creative, then day
LoopsBefore(a, b) ==
    \/ PlatformOrder(a.platform) < PlatformOrder(b.platform)
    \/ /\ a.platform = b.platform
       /\ \/ a.creative_id[3] < b.creative_id[3]
          \/ a.creative_id = b.creative_id /\ ParseDate(a.date) < ParseDate(b.date)

\* lines 154-160: the learning multiplier applied to a baseline, 1.0 when
\* _calculate_learning_phase_multiplier returns no dictionary
AppliedLearning(days_since_start, key) ==
    IF _calculate_learning_phase_multiplier(days_since_start).isdict
    THEN _calculate_learning_phase_multiplier(days_since_start)[key]
    ELSE RInt(1)

DaysOf(self, row) == ParseDate(row.date) - self.start_date

\* The factors other than learning, fatigue and noise on a rate of the record
SteadyFactors(self, row) ==
    RMul(_calculate_day_of_week_multiplier(row.platform,
             _get_date_features(self, ParseDate(row.date)).is_weekend),
         _get_creative_multiplier(row.creative_id[3]))

\* The rate of a record: its baseline with the learning multiplier, the
\* fatigue factor given, the day-of-week and creative factors, and the noise
\* of draw at
RateFromDraws(self, row, base, fatigue, rng, at) ==
    Round4(RMul(RMul(RMul(base, fatigue), SteadyFactors(self, row)),
                Uniform(90, 110, rng, at)))

\* cpm and spend before rounding, from the draws at f and f + 3
CpmFromDraws(self, row, pc, rng, f) ==
    RMul(RMul(pc.avg_cpm, AppliedLearning(DaysOf(self, row), "cpm_multiplier")),
         Uniform(90, 110, rng, f))

SpendFromDraws(self, pc, rng, f) ==
    RMul(PlannedDailyBudget(self.total_budget, pc.budget_percentage, self.duration_days,
                            pc.num_creatives),
         Uniform(95, 105, rng, f + 3))

BaselineEngagement(pc) ==
    IF "avg_engagement_rate" \in DOMAIN pc THEN pc.avg_engagement_rate ELSE Rat(3, 100)

\* cpm, ctr and engagement_rate of row are those the draws from place `at`
\* give: the fatigue factors from the draws at and at + 1 when the record
\* takes them (f = at + 2), none otherwise (f = at), and the noise from the
\* draws f, f + 1, f + 2
RatesFromDraws(self, row, pc, rng, at, f) ==
    /\ row.cpm = Round2(CpmFromDraws(self, row, pc, rng, f))
    /\ row.ctr = RateFromDraws(self, row,
                     RMul(pc.avg_ctr, AppliedLearning(DaysOf(self, row), "ctr_multiplier")),
                     IF f > at THEN Uniform(75, 85, rng, at) ELSE RInt(1), rng, f + 1)
    /\ HasEngagement(row.platform) =>
          row.engagement_rate = RateFromDraws(self, row, BaselineEngagement(pc),
              IF f > at THEN Uniform(80, 90, rng, at + 1) ELSE RInt(1), rng, f + 2)

\* row is the record the draws from place `at` of the stream rng give, taken
\* in the order: fatigue ctr, fatigue engagement (both only after week 3),
\* cpm noise, ctr noise, engagement noise, spend, reach, video views
FromDrawsInOrder(self, row, pc, rng, at, f) ==
    /\ RatesFromDraws(self, row, pc, rng, at, f)
    /\ row.spend = Round2(SpendFromDraws(self, pc, rng, f))
    /\ row.impressions = PyInt(RMul(RDiv(SpendFromDraws(self, pc, rng, f),
                                         CpmFromDraws(self, row, pc, rng, f)), RInt(1000)))
    /\ row.reach = PyInt(RMul(RInt(row.impressions), Uniform(70, 90, rng, f + 4)))
    /\ row.video_views = PyInt(RMul(RInt(row.impressions), Uniform(80, 95, rng, f + 5)))

DrawnInOrder(self, raw, rng, starts) ==
    /\ \A i \in 1..(Len(raw) - 1) : LoopsBefore(raw[i], raw[i + 1])
    /\ \A i \in 1..Len(raw) :
          FromDrawsInOrder(self, raw[i], self.platforms_config[raw[i].platform], rng,
                           starts[i], starts[i] + FatigueDrawsOf(self, raw[i]))

\* C21.  A generator that generates from the stream its constructor seeded
\* produces its records in the nested order platform, creative, day, each
\* from the draws that follow those of the record before it: 6 draws for a
\* record of weeks 1 to 3 and 8 for a later one, on every platform, in the
\* order fatigue ctr and fatigue engagement (after week 3 only), cpm noise,
\* ctr noise, engagement noise, spend, reach, video views; the injector's
\* draws follow those of the last record.
C21_DrawOrder ==
    CalledSeeded =>
        \E starts \in {DrawsFrom(generators[last_call.generator].self, last_call.raw, 1, 0)} :
            /\ DrawnInOrder(generators[last_call.generator].self, last_call.raw,
                            Seed(np_random), starts)
            /\ seeded_by = 0 =>
                  np_random.state =
                      Raw(Seed(np_random),
                          starts[Len(last_call.raw) + 1]
                          + (Len(last_call.raw) - Len(last_call.corrupted)) + 2)

C21_Witness ==
    /\ CalledSeeded
    /\ seeded_by = 0
    /\ np_random.inc = 1
    /\ config = FourWeekConfig
    /\ DrawsFrom(generators[last_call.generator].self, last_call.raw, 1, 0)[197]
          = 6 * 147 + 8 * 49

\* The multipliers of day d are within their bounds and no further from 1.0
\* than those of day d - 1
LearningBound(d) ==
    /\ RLeq(RInt(1), AppliedLearning(d, "cpm_multiplier"))
    /\ RLeq(AppliedLearning(d, "cpm_multiplier"), Rat(13, 10))
    /\ RLeq(Rat(85, 100), AppliedLearning(d, "ctr_multiplier"))
    /\ RLeq(AppliedLearning(d, "ctr_multiplier"), RInt(1))
    /\ d > 0 =>
          /\ RLeq(AppliedLearning(d, "cpm_multiplier"), AppliedLearning(d - 1, "cpm_multiplier"))
          /\ RLeq(AppliedLearning(d - 1, "ctr_multiplier"), AppliedLearning(d, "ctr_multiplier"))
    /\ d < 7 =>
          /\ AppliedLearning(d, "cpm_multiplier") = Rat(91 - 3 * d, 70)
          /\ AppliedLearning(d, "ctr_multiplier") = Rat(119 + 3 * d, 140)
    /\ d >= 7 =>
          /\ AppliedLearning(d, "cpm_multiplier") = RInt(1)
          /\ AppliedLearning(d, "ctr_multiplier") = RInt(1)

\* C22.  For every record generated, the learning multipliers applied on
\* its day are: for days_since_start 0 to 6, a cpm multiplier of
\* 1.3 - days_since_start * 0.3 / 7, within [1.0, 1.3] and not above that of
\* the day before, and a ctr multiplier of 0.85 + days_since_start * 0.15 / 7,
\* within [0.85, 1.0] and not below that of the day before; from day 7 on both
\* are exactly 1.0.
C22_LearningPhase ==
    Called =>
        \A i \in 1..Len(last_call.raw) :
            LearningBound(DaysOf(generators[last_call.generator].self, last_call.raw[i]))

C22_Witness ==
    /\ Called
    /\ \E i, j \in 1..Len(last_call.raw) :
          /\ DaysOf(generators[last_call.generator].self, last_call.raw[i]) = 6
          /\ DaysOf(generators[last_call.generator].self, last_call.raw[j]) = 7
          /\ last_call.raw[i].creative_id = last_call.raw[j].creative_id
          /\ AppliedLearning(6, "cpm_multiplier") = Rat(73, 70)

\* rate lies in round(steady * [lo, hi] / 100 * [0.9, 1.1], 4), lo and hi the
\* bounds of the fatigue factor after week 3 and 100 before
RateInBand(self, row, rate, steady, lo, hi) ==
    IF WeekOfRecord(self, row) > 3
    THEN /\ rate >= Round4(RMul(RMul(steady, Rat(lo, 100)), Rat(9, 10)))
         /\ rate <= Round4(RMul(RMul(steady, Rat(hi, 100)), Rat(11, 10)))
    ELSE /\ rate >= Round4(RMul(steady, Rat(9, 10)))
         /\ rate <= Round4(RMul(steady, Rat(11, 10)))

FatigueInBand(self, row, pc) ==
    /\ RateInBand(self, row, row.ctr,
           RMul(RMul(pc.avg_ctr, AppliedLearning(DaysOf(self, row), "ctr_multiplier")),
                SteadyFactors(self, row)), 75, 85)
    /\ HasEngagement(row.platform) =>
           RateInBand(self, row, row.engagement_rate,
               RMul(BaselineEngagement(pc), SteadyFactors(self, row)), 80, 90)
    /\ row.cpm >= Round2(RMul(RMul(pc.avg_cpm,
                       AppliedLearning(DaysOf(self, row), "cpm_multiplier")), Rat(9, 10)))
    /\ row.cpm <= Round2(RMul(RMul(pc.avg_cpm,
                       AppliedLearning(DaysOf(self, row), "cpm_multiplier")), Rat(11, 10)))

RatesInOrder(self, raw, rng, starts) ==
    \A i \in 1..Len(raw) :
        RatesFromDraws(self, raw[i], self.platforms_config[raw[i].platform], rng,
                       starts[i], starts[i] + FatigueDrawsOf(self, raw[i]))

\* C23.  A record of week_number > 3 has its ctr multiplied by a factor in
\* [0.75, 0.85] and its engagement_rate by a factor in [0.80, 0.90], both
\* drawn for this record; a record of week_number <= 3 has neither changed
\* by fatigue; cpm is the baseline times the learning multiplier and the
\* noise for every record, whatever its week, weekday and creative.
C23_Fatigue ==
    /\ Called =>
          \A i \in 1..Len(last_call.raw) :
              FatigueInBand(generators[last_call.generator].self, last_call.raw[i],
                            config.platforms[last_call.raw[i].platform])
    /\ CalledSeeded =>
          RatesInOrder(generators[last_call.generator].self, last_call.raw, Seed(np_random),
              DrawsFrom(generators[last_call.generator].self, last_call.raw, 1, 0))

\* A record of week 4 with a ctr below what the noise alone can give, and one
\* of week 3 on the same weekday with the same creative
C23_Witness ==
    /\ CalledSeeded
    /\ \E i, j \in 1..Len(last_call.raw) :
          /\ DaysOf(generators[last_call.generator].self, last_call.raw[i]) = 21
          /\ DaysOf(generators[last_call.generator].self, last_call.raw[j]) = 14
          /\ last_call.raw[i].creative_id = last_call.raw[j].creative_id
          /\ last_call.raw[i].ctr <
                Round4(RMul(RMul(config.platforms[last_call.raw[i].platform].avg_ctr,
                                 SteadyFactors(generators[last_call.generator].self,
                                               last_call.raw[i])), Rat(9, 10)))
          /\ last_call.raw[j].ctr >=
                Round4(RMul(RMul(config.platforms[last_call.raw[j].platform].avg_ctr,
                                 SteadyFactors(generators[last_call.generator].self,
                                               last_call.raw[j])), Rat(9, 10)))

\* -------------------------------------------- claims on the ingestion agent

Succeeded(op) == outcome.op = op /\ outcome.error = NoError

Readable(f) == f.exists /\ Parses(f)

LoadErrors == {"Data file not found", "Error loading data"}

\* C1.  On an agent on which load_data has not succeeded,
\* validate_data_quality and add_derived_features fail with an error and
\* leave raw_data, processed_data and data_quality_report as they were:
\* unset, unset and empty.
C1_StageBeforeLoad ==
    (/\ outcome.op \in {"validate_data_quality", "add_derived_features"}
     /\ outcome.before.raw_data = None)
    => /\ outcome.error = "No data loaded. Call load_data() first."
       /\ agent = outcome.before
       /\ agent = NewAgent

C1_Witness ==
    /\ outcome.op = "validate_data_quality"
    /\ outcome.before.raw_data = None
    /\ outcome.error # NoError
    /\ Readable(file)

\* C2.  With a missing or unparseable file load_data fails with its error
\* and raw_data stays unset; as long as no load has succeeded every
\* validate_data_quality, add_derived_features and normalize_platforms call
\* fails; run() ends with the error of load_data after that one stage,
\* returns nothing and leaves the agent without processed data or report.
C2_LoadFailure ==
    /\ (outcome.op \in {"load_data", "run"} /\ ~Readable(outcome.source))
       => /\ outcome.error \in LoadErrors
          /\ outcome.error = (IF outcome.source.exists THEN "Error loading data"
                              ELSE "Data file not found")
          /\ outcome.trace = <<"load_data">>
          /\ outcome.value = None
          /\ agent = outcome.before
    /\ (/\ outcome.op \in {"validate_data_quality", "add_derived_features",
                            "normalize_platforms"}
        /\ outcome.before.raw_data = None)
       => outcome.error # NoError
    /\ ~Readable(file) => agent = NewAgent

C2_Witness ==
    /\ outcome.op = "run"
    /\ outcome.source = EmptyFile
    /\ outcome.error = "Error loading data"
    /\ agent.processed_data = None

PipelineStages ==
    <<"load_data", "validate_data_quality", "add_derived_features", "normalize_platforms">>

\* C4.  run() goes through load, validate, derive and normalize exactly
\* once each, in that order; when it returns, every processed record has
\* days_since_start, week_number, day_of_week, day_name, is_weekend, month,
\* year and platform_display, and the report returned has exactly the parts
\* data_quality and summary_statistics.
C4_RunPipeline ==
    Succeeded("run") =>
        /\ SelectSeq(outcome.trace,
               LAMBDA st : \E k \in 1..Len(PipelineStages) : PipelineStages[k] = st)
           = PipelineStages
        /\ outcome.value[1] = agent.processed_data
        /\ \A i \in 1..Len(outcome.value[1].rows) :
              {DerivedColumns[k] : k \in 1..Len(DerivedColumns)} \cup {"platform_display"}
                 \subseteq DOMAIN outcome.value[1].rows[i]
        /\ DOMAIN outcome.value[2] = {"data_quality", "summary_statistics"}
        /\ outcome.value[2].data_quality = agent.data_quality_report

C4_Witness ==
    /\ Succeeded("run")
    /\ Len(outcome.value[1].rows) > 3
    /\ outcome.value[1].rows[1].platform_display = "Google Display"

\* The rows strictly outside [Q1 - 1.5 IQR, Q3 + 1.5 IQR], given q1 = 4 Q1
\* and q3 = 4 Q3: the fences are (5 q1 - 3 q3) / 8 and (5 q3 - 3 q1) / 8
Flagged(rows, metric, q1, q3) ==
    {i \in 1..Len(rows) : \/ 8 * rows[i][metric] < 5 * q1 - 3 * q3
                          \/ 8 * rows[i][metric] > 5 * q3 - 3 * q1}

\* The k smallest members of a set of row numbers, ascending
RECURSIVE Smallest(_, _)
Smallest(set, k) ==
    IF k = 0 \/ set = {} THEN <<>>
    ELSE <<CHOOSE i \in set : \A j \in set : i <= j>>
         \o Smallest(set \ {CHOOSE i \in set : \A j \in set : i <= j}, k - 1)

OutliersReported(rows, metric, outliers, flagged, examples) ==
    IF flagged = {} THEN metric \notin DOMAIN outliers
    ELSE /\ metric \in DOMAIN outliers
         /\ outliers[metric].count = Cardinality(flagged)
         /\ \E i \in flagged : outliers[metric].max_value = rows[i][metric]
         /\ \A i \in flagged : outliers[metric].max_value >= rows[i][metric]
         /\ Len(outliers[metric].dates) <= 3
         /\ Len(outliers[metric].dates) = Len(examples)
         /\ \A k \in 1..Len(examples) : outliers[metric].dates[k] = rows[examples[k]].date

FlaggedReported(rows, metric, outliers, flagged) ==
    OutliersReported(rows, metric, outliers, flagged, Smallest(flagged, 3))

IqrOutliers(rows, metric, outliers, values) ==
    FlaggedReported(rows, metric, outliers,
        Flagged(rows, metric, Quantile4(values, 1), Quantile4(values, 3)))

\* C11.  In the report of validate_data_quality, for each of impressions,
\* clicks and spend the flagged rows are those with a value strictly
\* outside [Q1 - 1.5 IQR, Q3 + 1.5 IQR] of the 25th and 75th percentile:
\* the count is their number, max_value their largest value, the dates are
\* those of the first three of them at most (a metric without flagged rows
\* has no entry), and of the impressions [10, 11, 9, 10, 12, 1000] the
\* value 1000 alone is flagged.
C11_IqrOutliers ==
    Succeeded("run") =>
        /\ \A metric \in {"impressions", "clicks", "spend"} :
              IqrOutliers(agent.raw_data.rows, metric, agent.data_quality_report.outliers,
                          ColumnOf(agent.raw_data.rows, metric))
        /\ ColumnOf(agent.raw_data.rows, "impressions") = SampleValues
           => /\ agent.data_quality_report.outliers["impressions"].count = 1
              /\ agent.data_quality_report.outliers["impressions"].max_value = 1000
              /\ agent.data_quality_report.outliers["impressions"].dates = <<<<2024, 3, 10>>>>

C11_Witness ==
    /\ Succeeded("run")
    /\ ColumnOf(agent.raw_data.rows, "impressions") = SampleValues
    /\ DOMAIN agent.data_quality_report.outliers = {"impressions"}
    /\ agent.data_quality_report.outliers["impressions"].max_value = 1000

\* C10.  In the report of validate_data_quality every platform has
\* expected_rows = days_covered times the number of creatives of that
\* platform, missing_rows = expected_rows - actual_rows and
\* completeness_percentage = round(100 * actual_rows / expected_rows).
C10_Completeness ==
    agent.data_quality_report # EmptyDict =>
        \A p \in DOMAIN agent.data_quality_report.data_completeness :
            LET entry == agent.data_quality_report.data_completeness[p]
            IN  /\ entry.expected_rows =
                      agent.data_quality_report.date_range.days_covered
                      * config.platforms[p].num_creatives
                /\ entry.missing_rows = entry.expected_rows - entry.actual_rows
                /\ entry.completeness_percentage =
                      PyRound(Rat(100 * entry.actual_rows, entry.expected_rows))

\* ------------------------------------------------- claims on the analyzer

Analysed_(op) == analyzer.constructed /\ analysis.op = op

\* C12.  calculate_overall_kpis returns cost_per_click = 0 when the clicks
\* of the processed data sum to 0, and round(total spend / total clicks, 2)
\* otherwise.
C12_CostPerClick ==
    Analysed_("calculate_overall_kpis") =>
        analysis.value.cost_per_click =
            (IF analysis.value.total_clicks = 0 THEN 0
             ELSE Round2(Rat(SumOf(ColumnOf(analyzer.self.data.rows, "spend")),
                             10000 * analysis.value.total_clicks)))

CreativesIn(rows, platform) ==
    {rows[i].creative_id : i \in {i \in 1..Len(rows) : rows[i].platform = platform}}

FirstRowOf(rows, creative) ==
    CHOOSE i \in 1..Len(rows) :
        /\ rows[i].creative_id = creative
        /\ \A j \in 1..(i - 1) : rows[j].creative_id # creative

\* Within every platform the ranks are 1..N without gap or repetition, a
\* creative of rank 1 has the largest avg_ctr, and avg_ctr never increases
\* with the rank.
RankedByCtr(rows, at) ==
    \A c \in DOMAIN at :
        /\ c \in CreativesIn(rows, at[c].platform)
        /\ CreativesIn(rows, at[c].platform) \subseteq DOMAIN at
        /\ {at[d].rank_by_ctr : d \in CreativesIn(rows, at[c].platform)}
              = 1..Cardinality(CreativesIn(rows, at[c].platform))
        /\ \A d \in CreativesIn(rows, at[c].platform) :
              /\ (at[c].rank_by_ctr = at[d].rank_by_ctr) => c = d
              /\ (at[c].rank_by_ctr < at[d].rank_by_ctr) => at[c].avg_ctr >= at[d].avg_ctr
              /\ (at[c].rank_by_ctr = 1) => at[c].avg_ctr >= at[d].avg_ctr

WeeksIn(rows) == {rows[i].week_number : i \in 1..Len(rows)}

\* The change from previous to current in percent, 0 from a previous 0
PercentChange(current, previous) ==
    IF previous = 0 THEN 0 ELSE Round2(Rat(100 * (current - previous), previous))

\* C14.  In the result of anlyze_by_week the first week of the data has no
\* ctr_change_pct and no cpm_change_pct; every later week of the data has
\* both, each the change in percent from the average of the latest earlier
\* week of the data, whether or not that is the week numbered one less, and
\* 0 when that average is 0.
C14_WeeklyChanges ==
    Analysed_("anlyze_by_week") =>
        /\ DOMAIN analysis.value = {WeekKey(w) : w \in WeeksIn(analyzer.self.data.rows)}
        /\ \A w \in WeeksIn(analyzer.self.data.rows) :
              IF \A v \in WeeksIn(analyzer.self.data.rows) : w <= v
              THEN DOMAIN analysis.value[WeekKey(w)]
                      \cap {"ctr_change_pct", "cpm_change_pct"} = {}
              ELSE \E v \in WeeksIn(analyzer.self.data.rows) :
                      /\ v < w
                      /\ \A u \in WeeksIn(analyzer.self.data.rows) : u < w => u <= v
                      /\ {"ctr_change_pct", "cpm_change_pct"}
                            \subseteq DOMAIN analysis.value[WeekKey(w)]
                      /\ analysis.value[WeekKey(w)].ctr_change_pct
                            = PercentChange(analysis.value[WeekKey(w)].avg_ctr,
                                            analysis.value[WeekKey(v)].avg_ctr)
                      /\ analysis.value[WeekKey(w)].cpm_change_pct
                            = PercentChange(analysis.value[WeekKey(w)].avg_cpm,
                                            analysis.value[WeekKey(v)].avg_cpm)

C14_Witness ==
    /\ Analysed_("anlyze_by_week")
    /\ DOMAIN analysis.value = {WeekKey(1), WeekKey(3), WeekKey(4)}
    /\ analysis.value[WeekKey(3)].ctr_change_pct < 0
    /\ analysis.value[WeekKey(3)].cpm_change_pct < 0
    /\ analysis.value[WeekKey(4)].cpm_change_pct = 0

\* C15.  analyze_day_of_week_patterns reports for every platform of the
\* data a weekend_ctr_lift: 0 when the weekday average ctr of the platform
\* is 0, and (weekend_avg_ctr - weekday_avg_ctr) / weekday_avg_ctr * 100
\* when it is positive and the platform has weekend data.
C15_WeekendLift ==
    Analysed_("analyze_day_of_week_patterns") =>
        \A p \in Members(ColumnOf(analyzer.self.data.rows, "platform")) :
            /\ p \in DOMAIN analysis.value.by_platform
            /\ "weekend_ctr_lift" \in DOMAIN analysis.value.by_platform[p]
            /\ analysis.value.by_platform[p].weekday_avg_ctr = 0
               => analysis.value.by_platform[p].weekend_ctr_lift = 0
            /\ (/\ analysis.value.by_platform[p].weekday_avg_ctr > 0
                /\ analysis.value.by_platform[p].weekend_avg_ctr >= 0)
               => analysis.value.by_platform[p].weekend_ctr_lift
                     = Round2(Rat(100 * (analysis.value.by_platform[p].weekend_avg_ctr
                                         - analysis.value.by_platform[p].weekday_avg_ctr),
                                  analysis.value.by_platform[p].weekday_avg_ctr))

DatesIn(rows) == {rows[i].date : i \in 1..Len(rows)}

DailyValue(rows, metric, date) ==
    SumSeq(AsSeq([i \in 1..Len(rows) |-> IF rows[i].date = date THEN rows[i][metric] ELSE 0]))

\* value > mean + 2 stddev of the daily values of the dates, stddev the
\* sample standard deviation: with d(x) = n x - total the deviation of x from
\* the mean times n, d(value) > 0 and d(value)^2 (n - 1) > 4 sum d(x)^2
Deviation(rows, metric, dates, date) ==
    Cardinality(dates) * DailyValue(rows, metric, date)
    - SumSeq(AsSeq([i \in 1..Len(rows) |-> rows[i][metric]]))

RECURSIVE SquaredDeviations(_, _, _, _)
SquaredDeviations(rows, metric, dates, rest) ==
    IF rest = {} THEN <<>>
    ELSE BigSum(BigSquare(Deviation(rows, metric, dates, CHOOSE date \in rest : TRUE)),
                SquaredDeviations(rows, metric, dates, rest \ {CHOOSE date \in rest : TRUE}), 0)

HighDay(rows, metric, dates, date) ==
    /\ Cardinality(dates) > 1
    /\ Deviation(rows, metric, dates, date) > 0
    /\ BigLess(BigTimes(SquaredDeviations(rows, metric, dates, dates), 4, 0),
               BigTimes(BigSquare(Deviation(rows, metric, dates, date)),
                        Cardinality(dates) - 1, 0))

\* C16.  high_performance_days of detect_anomalies has exactly one entry for
\* every metric of impressions and clicks and every date whose summed value
\* is above mean + 2 stddev of the metric's daily sums, and no other entry;
\* the entry has the value of the date and round(value / mean, 2).
C16_HighPerformanceDays ==
    Analysed_("detect_anomalies") =>
        /\ \A metric \in {"impressions", "clicks"} :
           \A date \in DatesIn(analyzer.self.data.rows) :
              Cardinality({k \in 1..Len(analysis.value.high_performance_days) :
                  /\ analysis.value.high_performance_days[k].metric = metric
                  /\ analysis.value.high_performance_days[k].date = FormatDate(date)})
              = (IF HighDay(analyzer.self.data.rows, metric,
                            DatesIn(analyzer.self.data.rows), date) THEN 1 ELSE 0)
        /\ \A k \in 1..Len(analysis.value.high_performance_days) :
              /\ analysis.value.high_performance_days[k].metric \in {"impressions", "clicks"}
              /\ \E date \in DatesIn(analyzer.self.data.rows) :
                    /\ analysis.value.high_performance_days[k].date = FormatDate(date)
                    /\ analysis.value.high_performance_days[k].value
                          = DailyValue(analyzer.self.data.rows,
                                analysis.value.high_performance_days[k].metric, date)
                    /\ analysis.value.high_performance_days[k].times_above_average
                          = Round2(Rat(
                                analysis.value.high_performance_days[k].value
                                   * Cardinality(DatesIn(analyzer.self.data.rows)),
                                SumOf(ColumnOf(analyzer.self.data.rows,
                                    analysis.value.high_performance_days[k].metric))))

C16_Witness ==
    /\ Analysed_("detect_anomalies")
    /\ Len(analysis.value.high_performance_days) = 2
    /\ analysis.value.high_performance_days[1].metric = "impressions"
    /\ analysis.value.high_performance_days[1].date = <<2024, 3, 16>>
    /\ analysis.value.high_performance_days[1].value = 2000
    /\ analysis.value.high_performance_days[2].metric = "clicks"
    /\ analysis.value.high_performance_days[2].value = 160

\* C17.  Whatever the data, detect_anomalies returns an empty
\* low_performance_days and a total_low_performance_days of 0, and
\* total_high_performance_days is the length of high_performance_days.
C17_NoLowPerformanceDays ==
    Analysed_("detect_anomalies") =>
        /\ analysis.value.low_performance_days = <<>>
        /\ analysis.value.summary.total_low_performance_days = 0
        /\ analysis.value.summary.total_high_performance_days
              = Len(analysis.value.high_performance_days)

C17_Witness ==
    /\ Analysed_("detect_anomalies")
    /\ analysis.value.summary.total_high_performance_days = 1
    /\ analysis.value.high_performance_days[1].value = 1000
    /\ analysis.value.low_performance_days = <<>>

AnalysisOperations ==
    {"calculate_overall_kpis", "analyze_by_platform", "anlyze_by_week",
     "analyze_by_creative", "analyze_day_of_week_patterns", "detect_anomalies"}

\* What a method returns on an analyzer just constructed with the data
OnFreshAnalyzer(op, fresh) ==
    CASE op = "calculate_overall_kpis" -> calculate_overall_kpis(fresh).value
      [] op = "analyze_by_platform" -> analyze_by_platform(fresh).value
      [] op = "anlyze_by_week" -> anlyze_by_week(fresh).value
      [] op = "analyze_by_creative" -> analyze_by_creative(fresh).value
      [] op = "analyze_day_of_week_patterns" -> analyze_day_of_week_patterns(fresh).value
      [] op = "detect_anomalies" -> detect_anomalies(fresh).value

\* C18.  Each of the six analysis methods leaves the analyzer and its data
\* as they were, the data being the processed data the analyzer was
\* constructed with, and returns what it returns on an analyzer just
\* constructed, whichever methods were called before and however often.
C18_AnalysisReadsOnly ==
    (analyzer.constructed /\ analysis.op \in AnalysisOperations) =>
        /\ analyzer = analysis.before
        /\ analyzer.self.data = agent.processed_data
        /\ analysis.value = OnFreshAnalyzer(analysis.op, NewAnalyzer(agent.processed_data))

C18_Witness ==
    /\ Analysed_("analyze_by_creative")
    /\ "analysis_results" \in DOMAIN analysis.before.self
    /\ analysis.before.self.analysis_results.analysis_timestamp = ClockReadings
    /\ analyzer.self.data = agent.processed_data

\* C24.  No aggregate of overall_kpis and of the platform breakdown is
\* non-finite: frequency is 0 when the reach it divides by is 0, the
\* cost_per_click of a platform is 0 when the platform has no clicks, and
\* spend_percentage and impression_share are 0 when the campaign's total
\* spend and total impressions are 0.
C24_ZeroDenominators ==
    /\ Analysed_("calculate_overall_kpis") =>
          /\ analysis.value.frequency >= 0
          /\ analysis.value.total_reach = 0 => analysis.value.frequency = 0
    /\ Analysed_("analyze_by_platform") =>
          \A p \in DOMAIN analysis.value :
              /\ analysis.value[p].frequency >= 0
              /\ analysis.value[p].cost_per_click >= 0
              /\ analysis.value[p].spend_percentage >= 0
              /\ analysis.value[p].impression_share >= 0
              /\ analysis.value[p].reach = 0 => analysis.value[p].frequency = 0
              /\ analysis.value[p].clicks = 0 => analysis.value[p].cost_per_click = 0
              /\ SumOf(ColumnOf(analyzer.self.data.rows, "spend")) = 0
                    => analysis.value[p].spend_percentage = 0
              /\ SumOf(ColumnOf(analyzer.self.data.rows, "impressions")) = 0
                    => analysis.value[p].impression_share = 0

\* The file is one a generator wrote from the configuration
FromSimulator == file \notin {OutlierSample, GappedWeeks, NothingDelivered, EvenRates}

\* C25.  The file generated for the four-week campaign with creative counts
\* [3, 2, 2], ingested, gives a weekly analysis with exactly the buckets
\* week_1 to week_4, each with data, one for every week_number of the
\* processed data, whichever records the injector dropped and inflated.
C25_FourWeekBuckets ==
    (Analysed_("anlyze_by_week") /\ config = FourWeekConfig /\ FromSimulator) =>
        /\ DOMAIN analysis.value = {WeekKey(w) : w \in 1..4}
        /\ WeeksIn(analyzer.self.data.rows) = 1..4
        /\ \A w \in 1..4 :
              /\ analysis.value[WeekKey(w)].week_number = w
              /\ analysis.value[WeekKey(w)].days_with_data >= 1
              /\ analysis.value[WeekKey(w)].impressions > 0

C25_Witness ==
    /\ Analysed_("anlyze_by_week")
    /\ config = FourWeekConfig
    /\ FromSimulator
    /\ Len(analyzer.self.data.rows) < 196
    /\ analysis.value[WeekKey(4)].days_with_data = 7

\* C28 as stated.  Every record of the processed data of a generated file has the
\* days_since_start and the week_number the simulator had for its date,
\* counted from the start_date of the configuration.
C28_SameDayNumbers ==
    (outcome.op = "run" /\ outcome.error = NoError /\ FromSimulator) =>
        \A i \in 1..Len(agent.processed_data.rows) :
            /\ agent.processed_data.rows[i].days_since_start =
                  _get_date_features(NewGenerator(config),
                      agent.processed_data.rows[i].date).days_since_start
            /\ agent.processed_data.rows[i].week_number =
                  _get_date_features(NewGenerator(config),
                      agent.processed_data.rows[i].date).week_number

\* The days from the start_date of the configuration to the earliest date
\* of the rows
DaysLost(rows) == MinOf(ColumnOf(rows, "date")) - ParseDate(config.campaign.start_date)

SameDayNumbersFrom(rows, lost) ==
    \A i \in 1..Len(rows) :
        /\ rows[i].days_since_start =
              _get_date_features(NewGenerator(config), rows[i].date).days_since_start - lost
        /\ rows[i].week_number =
              ((_get_date_features(NewGenerator(config), rows[i].date).days_since_start - lost)
                 \div 7) + 1

\* C28 amended.  Every record of the processed data of a generated file has
\* the days_since_start the simulator had for its date less the number of
\* days from the start_date to the earliest date the injector left, and the
\* week_number of that; the two agree with the simulator's when a record of
\* the start_date is left, as it is when a platform has 3 creatives or more.
C28_SameDayNumbersFromFirstDate ==
    (outcome.op = "run" /\ outcome.error = NoError /\ FromSimulator) =>
        /\ DaysLost(agent.processed_data.rows) >= 0
        /\ SameDayNumbersFrom(agent.processed_data.rows, DaysLost(agent.processed_data.rows))
        /\ (\E k \in 1..Len(platforms) : config.platforms[platforms[k]].num_creatives >= 3)
              => DaysLost(agent.processed_data.rows) = 0

\* A record of the start_date dropped and another one left
C28_Witness ==
    /\ outcome.op = "run" /\ outcome.error = NoError /\ FromSimulator
    /\ config = FourWeekConfig
    /\ DaysLost(agent.processed_data.rows) = 0
    /\ Cardinality({i \in 1..Len(agent.processed_data.rows) :
                       agent.processed_data.rows[i].days_since_start = 0}) < 7
    /\ agent.processed_data.rows[Len(agent.processed_data.rows)].week_number = 4

\* round(mean of the ctr of the rows, k), step the size of the k-th decimal
\* in millionths
MeanOfRates(rows, step) ==
    step * PyRound(Rat(SumOf(ColumnOf(rows, "ctr")), Len(rows) * step))

RatesKnown(rows) == \A i \in 1..Len(rows) : rows[i].ctr >= 0

\* The mean of the ctr of the rows is their clicks over their impressions:
\* sum(ctr) / n = sum(clicks) / sum(impressions), ctr counting millionths
MeanIsPooled(rows) ==
    BigEqual(BigProduct(Big(SumOf(ColumnOf(rows, "ctr"))),
                        Big(SumOf(ColumnOf(rows, "impressions")))),
             BigProduct(BigProduct(Big(1000000), Big(SumOf(ColumnOf(rows, "clicks")))),
                        Big(Len(rows))))

\* Two rows of different impressions and of different ctr
RowsDiffer(rows) ==
    \E i, j \in 1..Len(rows) :
        rows[i].impressions # rows[j].impressions /\ rows[i].ctr # rows[j].ctr

\* The groups of the three breakdowns: all rows, the rows of a platform, the
\* rows of a week
RateGroups(rows) ==
    {rows} \cup {RowsOf(rows, "platform", p) : p \in Members(ColumnOf(rows, "platform"))}
           \cup {RowsOf(rows, "week_number", w) : w \in Members(ColumnOf(rows, "week_number"))}

RequiredOfConfig(c) ==
    \/ MissingOfInit(c) # ""
    \/ \E k \in 1..Len(platforms) :
          \/ platforms[k] \notin DOMAIN c.platforms
          \/ \E o \in 1..4 : OptionKeys[o] \notin DOMAIN c.platforms[platforms[k]]

\* C27.  On a configuration that lacks a campaign field, the entry of a
\* platform or a required option of a platform, the generator raises, at its
\* construction or in generate_campaign_data, and when it raises no record
\* has been generated and no draw taken from the stream.
C27_FailsBeforeSimulation ==
    \A g \in GeneratorIds :
        /\ "raised" \in DOMAIN generators[g] =>
              /\ generators[g].raised.generated = 0
              /\ generators[g].raised.draws = 0
        /\ (generators[g].constructed /\ generators[g].calls = 1 /\ RequiredOfConfig(config))
              => "raised" \in DOMAIN generators[g]
        /\ (generators[g].constructed /\ generators[g].calls = 1) => MissingOfInit(config) = ""

\* -------------------------------------- claims on the order of the calls

HasDisplay(df) ==
    /\ df # None
    /\ \E c \in 1..Len(df.columns) : df.columns[c] = "platform_display"
    /\ \A i \in 1..Len(df.rows) : "platform_display" \in DOMAIN df.rows[i]

\* C29.  After a call on the agent, processed_data has the column
\* platform_display exactly if the call was a successful normalize_platforms
\* or run, or the call was not a successful add_derived_features and
\* processed_data had the column before: so it has the column exactly if
\* normalize_platforms was called more recently than add_derived_features.
\* add_derived_features leaves the frame derived from raw_data, whatever
\* processed_data was; normalize_platforms on a normalized frame leaves it as
\* it is; neither of them nor validate_data_quality changes raw_data.
C29_NormalizationLastWins ==
    /\ outcome.op # "" =>
          HasDisplay(agent.processed_data)
              = \/ Succeeded("normalize_platforms")
                \/ Succeeded("run")
                \/ ~Succeeded("add_derived_features") /\ HasDisplay(outcome.before.processed_data)
    /\ Succeeded("add_derived_features") => agent.processed_data = Derive(agent.raw_data)
    /\ (Succeeded("normalize_platforms") /\ HasDisplay(outcome.before.processed_data))
          => agent.processed_data = outcome.before.processed_data
    /\ Succeeded("normalize_platforms")
          => Normalized(agent.processed_data) = agent.processed_data
    /\ outcome.op \in {"add_derived_features", "normalize_platforms", "validate_data_quality"}
          => agent.raw_data = outcome.before.raw_data

\* add_derived_features on an agent whose processed data was normalized
C29_Witness ==
    /\ Succeeded("add_derived_features")
    /\ HasDisplay(outcome.before.processed_data)
    /\ Len(outcome.before.processed_data.rows) > 0
    /\ ~HasDisplay(agent.processed_data)
    /\ agent.raw_data # None

\* C30.  save_analysis on an analyzer on which run has not been called
\* raises 'No analysis results to save. Run analysis first.' and writes
\* nothing; on an analyzer on which run has returned it raises nothing and
\* writes the results run returned, which are the analyzer's
\* analysis_results.
C30_SaveNeedsRun ==
    Analysed_("save_analysis") =>
        /\ analyzer = analysis.before
        /\ "analysis_results" \notin DOMAIN analysis.before.self =>
              /\ analysis.error = "No analysis results to save. Run analysis first."
              /\ analysis.written = None
        /\ "analysis_results" \in DOMAIN analysis.before.self =>
              /\ analysis.error = NoError
              /\ analysis.written # None
              /\ analysis.written.document = analysis.before.self.analysis_results

====
